---- MODULE Spec2Model ----
(***************************************************************************)
(* Model of the compras-tics scrapers: the three registered source         *)
(* adapters (scrape_boletin_tercera, scrape_comprar_tics,                  *)
(* scrape_comprar_tics_robot), the ScraperWorker that runs one of them on  *)
(* a background thread, and the ScraperWindow that starts and cancels      *)
(* workers.  The web sites are the environment: what a listing holds and   *)
(* what a detail fetch answers are chosen by \E in the step that fetches.  *)
(***************************************************************************)
EXTENDS Integers, Sequences, FiniteSets, TLC

VARIABLES
    site_key,     \* ScraperWorker.site_key
    range_ok,     \* start_date <= end_date for this worker
    pages,        \* rows of each listing page (portal) / notices of each day (gazette)
    budget,       \* environment deviations still allowed in this run
    cancelFlag,   \* ScraperWorker._cancelled
    pc,           \* control location of the worker and of the adapter it runs
    page,         \* 1-based page being fetched/walked; fecha_actual as a day number
    day_index,    \* boletin: day_index
    idx,          \* rows of the current loop already iterated
    total,        \* comprar: total = len(list_rows)
    n_av,         \* boletin: n_av of the current day
    filas,        \* robot: len(filas) of the current page
    pagina,       \* robot: pagina
    total_procesos, \* robot: total_procesos
    records,      \* records / registros accumulated by the adapter
    progress,     \* values passed to progress_callback, in order
    outcome,      \* "running" | "returned" | "raised" : how the adapter call ended
    ret,          \* the integer the adapter returned
    written,      \* rows of the spreadsheet written by to_excel
    fileWritten,  \* TRUE once to_excel has produced the file
    session,      \* "none" | "open" | "closed": requests.Session / Chrome driver
    cancelObs,    \* [seen, k]: is_cancelled() has returned TRUE; len(records) then
    fetchObs,     \* [polled, unpolled, afterCancel]: bookkeeping of network fetches
    attempted,    \* [row, c]: rows whose detail fetch was attempted, and what the site answered
    listed,       \* rows of the listings fetched so far
    requested,    \* boletin: the days whose listing was requested, in order
    emitted,      \* signals emitted by ScraperWorker.run itself, in order
    cancelled,    \* ScraperWorker.run: its local `cancelled`
    pending,      \* terminal signals queued for the window, not yet handled
    btn_start,    \* ScraperWindow.btn_start.isEnabled()
    btn_cancel,   \* ScraperWindow.btn_cancel.isEnabled()
    worker,       \* ScraperWindow._worker: "none" | "worker"
    activeRuns,   \* adapter invocations entered and not yet returned or raised
    started,      \* worker threads started by the window
    handled,      \* terminal signals handled by the window
    call,         \* the utility function applied ("none" in the scraper runs)
    arg,          \* its argument: [t |-> Python type, v |-> characters]
    result,       \* [done, ...]: what the call returned, once it has
    upload        \* one run of an upload utility and its destination store

vars == <<site_key, range_ok, pages, budget, cancelFlag, pc, page, day_index, idx,
          total, n_av, filas, pagina, total_procesos, records, progress, outcome,
          ret, written, fileWritten, session, cancelObs, fetchObs, attempted,
          listed, requested, emitted, cancelled, pending, btn_start, btn_cancel, worker, activeRuns, started,
          handled, call, arg, result, upload>>

adapterVars == <<page, day_index, idx, total, n_av, filas, pagina, total_procesos,
                 records, progress, written, fileWritten, session, cancelObs,
                 fetchObs, attempted, listed, requested>>

guiVars == <<btn_start, btn_cancel, worker, started, handled>>

inputVars == <<site_key, range_ok, pages>>

utilVars == <<call, arg, result, upload>>

-----------------------------------------------------------------------------
(* Bounds *)

MaxPages == 2     \* listing pages (gazette days) of a run
MaxRows == 1      \* rows of one listing page (notices of one day)
MaxFaults == 1    \* fetches/rows of one run that depart from the plain case
MaxRuns == 2      \* runs one window starts
MaxTextLen == 3   \* characters of a text given to a text function
MaxDateLen == 5   \* characters of an opening-date text
MaxRecords == 2   \* records of the JSON file given to an upload utility
MaxUploads == 2   \* times the same file is uploaded
MaxSitePages == 3 \* pages the portal's pager links to
MaxResults == 5   \* the total the portal announces ("Se han encontrado (N) resultados")
MaxPageSize == 2  \* rows on the first listing page
MaxHidden == 2    \* hidden inputs of the listing page's form
MaxLines == 4     \* text lines of a detail page
MaxTables == 1    \* tables of a detail page

(* max_paginas passed by scrape_comprar_tics_robot to ejecutar_robot *)
MaxPaginas == 1

-----------------------------------------------------------------------------
(* Inputs *)

RECURSIVE SeqsUpTo(_, _)
SeqsUpTo(S, n) ==
    IF n = 0 THEN {<<>>}
    ELSE LET shorter == SeqsUpTo(S, n - 1)
         IN shorter \cup {Append(s, x) : s \in {t \in shorter : Len(t) = n - 1}, x \in S}

\* the end-to-end scenario of the specification: 12 rows on page 1, 3 on page 2
ScenarioPages == <<12, 3>>

Layouts == {l \in SeqsUpTo(0..MaxRows, MaxPages) : Len(l) >= 1} \cup {ScenarioPages}

\* the listings met by the runs a window starts: one page (one day)
ShellLayouts == {l \in Layouts : Len(l) = 1}

RECURSIVE SumSeq(_)
SumSeq(s) == IF s = <<>> THEN 0 ELSE Head(s) + SumSeq(Tail(s))

\* 1-based number of row i (1-based) of page p in the flat, order-preserving listing
RowNo(p, i) == SumSeq(SubSeq(pages, 1, p - 1)) + i

Min(a, b) == IF a < b THEN a ELSE b
Max(a, b) == IF a > b THEN a ELSE b

-----------------------------------------------------------------------------
(* Python values: None, "" and non-empty strings; `a or b` *)

NoneV == "None"
Truthy(v) == v \notin {NoneV, ""}
Or(a, b) == IF Truthy(a) THEN a ELSE b

ListingShapes == {"full", "sparse"}
DetailShapes == {"full", "mixed", "empty"}

\* one row of the results grid: the process number is never empty
ListingRow(shape, link) ==
    [numero_proceso   |-> "L",
     nombre_proceso   |-> "L",
     tipo_proceso     |-> IF shape = "full" THEN "L" ELSE "",
     fecha_apertura   |-> IF shape = "full" THEN "L" ELSE "",
     estado           |-> "L",
     unidad_ejecutora |-> IF shape = "full" THEN "L" ELSE "",
     saf              |-> IF shape = "full" THEN "L" ELSE "",
     detalle_url      |-> IF link = "url" THEN "U" ELSE NoneV]

\* what extract_convocatoria_fields returns for a detail page
DetailData(shape) ==
    [numero_proceso   |-> IF shape = "empty" THEN NoneV ELSE "D",
     expediente       |-> IF shape = "full" THEN "D" ELSE NoneV,
     nombre_proceso   |-> IF shape = "full" THEN "D" ELSE NoneV,
     tipo_proceso     |-> IF shape = "empty" THEN NoneV ELSE "D",
     fecha_apertura   |-> IF shape = "full" THEN "D" ELSE NoneV,
     estado           |-> IF shape = "empty" THEN NoneV ELSE "D",
     unidad_ejecutora |-> IF shape = "empty" THEN NoneV ELSE "D",
     saf              |-> IF shape = "full" THEN "D" ELSE NoneV,
     detalle_productos |-> IF shape = "full" THEN "D" ELSE NoneV,
     url              |-> "D"]

\* detail_data = {}: every .get() gives None
NoDetail ==
    [numero_proceso |-> NoneV, expediente |-> NoneV, nombre_proceso |-> NoneV,
     tipo_proceso |-> NoneV, fecha_apertura |-> NoneV, estado |-> NoneV,
     unidad_ejecutora |-> NoneV, saf |-> NoneV, detalle_productos |-> NoneV,
     url |-> NoneV]

\* what the site answers for one row: how the row links to its detail, what the
\* detail fetch does, and the shape of the listing row and of the detail page
PlainCase == [link |-> "url", det |-> "ok", lst |-> "full", dtl |-> "full"]

RowCases(key) ==
    {c \in [link : {"url", "postback"}, det : {"ok", "throws", "none"},
            lst : ListingShapes, dtl : DetailShapes] :
        /\ c.det # "ok" => c.dtl = "empty"
        /\ key = "comprar_tics" => (c.link = "url" => c.det # "none")
        /\ key = "comprar_tics_robot" => c.link = "url"
        /\ key = "boletin_tercera" =>
              c.link = "url" /\ c.lst = "full" /\ c.dtl # "mixed" /\ c.det # "none"
                 /\ (c.det = "ok" => c.dtl = "full")}

\* the cases the remaining budget allows
Allowed(key) == {c \in RowCases(key) : c = PlainCase \/ budget > 0}
Cost(c) == IF c = PlainCase THEN 0 ELSE 1

-----------------------------------------------------------------------------
(* Merge of a listing row with its detail *)

\* scrape_comprar_tics: the merged dict, detail first
MergeHttp(detail_data, row, n) ==
    [row              |-> n,
     numero_proceso   |-> Or(detail_data.numero_proceso, row.numero_proceso),
     expediente       |-> detail_data.expediente,
     nombre_proceso   |-> Or(detail_data.nombre_proceso, row.nombre_proceso),
     tipo_proceso     |-> Or(detail_data.tipo_proceso, row.tipo_proceso),
     fecha_apertura   |-> Or(detail_data.fecha_apertura, row.fecha_apertura),
     estado           |-> Or(detail_data.estado, row.estado),
     unidad_ejecutora |-> Or(detail_data.unidad_ejecutora, row.unidad_ejecutora),
     saf              |-> Or(detail_data.saf, row.saf),
     detalle_productos |-> detail_data.detalle_productos,
     url_detalle      |-> Or(detail_data.url, row.detalle_url)]

\* a robot merge that takes every field detail first, as the HTTP adapter does
MergeRobotDetailFirst(detalle, fila, n) == MergeHttp(detalle, fila, n)

\* ejecutar_robot: the registro dict; estado, unidad_ejecutora and saf listing first
MergeRobot(detalle, fila, n) ==
    [row              |-> n,
     numero_proceso   |-> Or(detalle.numero_proceso, fila.numero_proceso),
     expediente       |-> detalle.expediente,
     nombre_proceso   |-> Or(detalle.nombre_proceso, fila.nombre_proceso),
     tipo_proceso     |-> Or(detalle.tipo_proceso, fila.tipo_proceso),
     fecha_apertura   |-> Or(detalle.fecha_apertura, fila.fecha_apertura),
     estado           |-> Or(fila.estado, detalle.estado),
     unidad_ejecutora |-> Or(fila.unidad_ejecutora, detalle.unidad_ejecutora),
     saf              |-> Or(fila.saf, detalle.saf),
     detalle_productos |-> detalle.detalle_productos,
     url_detalle      |-> detalle.url]

\* scrape_boletin_tercera: the parsed notice plus the two listing fields
AvisoRecord(n) ==
    [row |-> n, proceso |-> "D", titulo_listado |-> "L", fecha_edicion |-> "L"]

\* what the HTTP adapter's detail step leaves in detail_data
HttpDetail(c) == IF c.det = "ok" THEN DetailData(c.dtl) ELSE NoDetail

\* ejecutar_robot: `if not detalle: continue`
RobotSkips(c) == c.det # "ok"

\* an HTTP adapter that skips a row whose detail could not be read
HttpRecordsSkipFailed(recs, c, n) ==
    IF c.det = "ok"
    THEN Append(recs, MergeHttp(HttpDetail(c), ListingRow(c.lst, c.link), n))
    ELSE recs

\* scrape_comprar_tics: records after the row numbered n, answered c, was handled:
\* the row is appended whether or not its detail could be read
HttpRecords(recs, c, n) ==
    Append(recs, MergeHttp(HttpDetail(c), ListingRow(c.lst, c.link), n))

\* ejecutar_robot: registros after the row numbered n, answered c, was handled
RobotRecords(recs, c, n) ==
    IF RobotSkips(c) THEN recs
    ELSE Append(recs, MergeRobot(DetailData(c.dtl), ListingRow(c.lst, c.link), n))

\* scrape_boletin_tercera: registros after notice n, answered c, was handled
BoletinRecords(recs, c, n) ==
    IF c.det = "ok" THEN Append(recs, AvisoRecord(n)) ELSE recs

\* a row loop that stays on a row whose detail was not obtained
RowLoopRetries(i, n, c) == IF c.det # "ok" THEN i ELSE i + 1

\* a row loop that is left when a row's detail raised
RowLoopBreaks(i, n, c) == IF c.det = "throws" THEN n ELSE i + 1

\* the row loops go on with the next row after a row whose detail raised
RowLoopNext(i, n, c) == i + 1

\* a cancelled robot run that throws its partial result away
CancelledFrameDropped(registros) == <<>>

\* ejecutar_robot on cancellation: pd.DataFrame(registros) if registros else pd.DataFrame()
CancelledFrame(registros) == registros

\* an export that never takes the nothing-to-export branch
FrameNeverEmpty(recs) == FALSE

\* df.empty / `not records`
FrameEmpty(recs) == recs = <<>>

-----------------------------------------------------------------------------
(* Progress values *)

\* a percentage computed without dividing by the total
PortalProgressNoDivision(i, n) == i * 100

\* scrape_comprar_tics: int(idx * 100 / total)
PortalProgress(i, n) == (i * 100) \div n

\* ejecutar_robot: min(total_procesos, 99)
RobotProgress(n) == Min(n, 99)

\* scrape_boletin_tercera: min(100, max(0, int(frac * 100)))
Clamp(p) == Min(100, Max(0, p))

\* frac = day_index / total_days; int(frac * 100) is the floor of the exact
\* quotient for every total_days below 50 (at 50 days, day 29 gives 57, not 58)
BoletinDayPct(d, D) == Clamp((d * 100) \div D)

\* frac = (day_index + idx_aviso / n_av) / total_days is computed in floating
\* point, and int(frac * 100) then falls one below the floor of the exact
\* quotient for some inputs.  These are the <<total_days, n_av, day_index,
\* idx_aviso>> where it does, among total_days <= 7 and n_av <= 30.
FloatOneBelow ==
    {<<2, 25, 1, 4>>, <<3, 20, 1, 13>>, <<3, 25, 0, 21>>, <<4, 25, 1, 4>>,
     <<4, 25, 2, 8>>, <<5, 5, 1, 2>>, <<5, 5, 2, 4>>, <<5, 10, 0, 7>>,
     <<5, 10, 1, 4>>, <<5, 10, 2, 8>>, <<5, 10, 2, 9>>, <<5, 10, 3, 3>>,
     <<5, 15, 1, 6>>, <<5, 15, 2, 12>>, <<5, 20, 0, 7>>, <<5, 20, 0, 14>>,
     <<5, 20, 1, 8>>, <<5, 20, 1, 9>>, <<5, 20, 1, 13>>, <<5, 20, 2, 16>>,
     <<5, 20, 2, 18>>, <<5, 20, 3, 6>>, <<5, 20, 4, 7>>, <<5, 20, 4, 11>>,
     <<5, 25, 1, 10>>, <<5, 25, 2, 20>>, <<5, 30, 0, 21>>, <<5, 30, 1, 12>>,
     <<5, 30, 2, 24>>, <<5, 30, 2, 27>>, <<5, 30, 3, 9>>, <<6, 10, 3, 3>>,
     <<6, 20, 3, 6>>, <<6, 25, 0, 21>>, <<6, 25, 3, 9>>, <<6, 25, 3, 12>>,
     <<6, 25, 4, 17>>, <<6, 30, 3, 9>>, <<7, 25, 1, 24>>, <<7, 25, 3, 23>>}

\* pct = min(100, max(0, int(frac * 100))) with the frac above
BoletinAvisoPct(d, i, n, D) ==
    Clamp(((100 * (d * n + i)) \div (n * D))
              - (IF <<D, n, d, i>> \in FloatOneBelow THEN 1 ELSE 0))

-----------------------------------------------------------------------------
(* Bookkeeping of polls and fetches *)

\* is_cancelled() returned TRUE with n records appended
PollTrue(co, n) == [seen |-> TRUE, k |-> IF co.seen THEN co.k ELSE n]

\* is_cancelled() returned FALSE
PollFalse(fo) == [fo EXCEPT !.polled = TRUE]

\* a listing or detail fetch starts
Fetch(fo, co) ==
    [polled |-> FALSE,
     unpolled |-> fo.unpolled \/ ~fo.polled,
     afterCancel |-> fo.afterCancel \/ co.seen]

\* the adapter returns n / raises
Returns(n) ==
    /\ pc' = "w_emit"
    /\ outcome' = "returned"
    /\ ret' = n
    /\ activeRuns' = activeRuns - 1

Raises ==
    /\ pc' = "w_emit"
    /\ outcome' = "raised"
    /\ ret' = ret
    /\ activeRuns' = activeRuns - 1

Running == outcome' = outcome /\ ret' = ret /\ activeRuns' = activeRuns

workerIdle == <<site_key, range_ok, pages, cancelFlag, emitted, cancelled, pending>>

-----------------------------------------------------------------------------
(* ScraperWorker *)

\* a freshly constructed worker whose thread has not run yet
FreshAdapter ==
    /\ page = 1 /\ day_index = 0 /\ idx = 0 /\ total = 0 /\ n_av = 0 /\ filas = 0
    /\ pagina = 1 /\ total_procesos = 0
    /\ records = <<>> /\ progress = <<>> /\ written = <<>> /\ fileWritten = FALSE
    /\ session = "none"
    /\ cancelObs = [seen |-> FALSE, k |-> 0]
    /\ fetchObs = [polled |-> FALSE, unpolled |-> FALSE, afterCancel |-> FALSE]
    /\ attempted = <<>> /\ listed = 0 /\ requested = <<>>

SiteKeys == {"boletin_tercera", "comprar_tics", "comprar_tics_robot"}

\* get_scraper: the registry lookup; an unknown key raises ValueError
Registered(key) == key \in SiteKeys

\* the site_key a ScraperWorker may be constructed with: any string
WorkerKeys == SiteKeys \cup {"otro_sitio"}

\* ScraperWorker.request_cancel: self._cancelled = True, whenever the window's
\* thread calls it on an existing worker
RequestCancel ==
    /\ pc # "none"
    /\ cancelFlag' = TRUE
    /\ UNCHANGED <<site_key, range_ok, pages, budget, pc, outcome, ret, emitted,
                   cancelled, pending, activeRuns>>
    /\ UNCHANGED adapterVars

\* ScraperWorker.run up to the first network request of the adapter
WorkerRun ==
    /\ pc = "ready"
    /\ UNCHANGED <<workerIdle, page, day_index, idx, total, n_av, filas, pagina,
                   total_procesos, records, progress, written, fileWritten,
                   cancelObs, fetchObs, attempted, listed, requested>>
    /\ IF ~Registered(site_key)
       THEN /\ pc' = "w_emit" /\ outcome' = "raised"
            /\ UNCHANGED <<ret, activeRuns, session, budget>>
       ELSE CASE site_key = "boletin_tercera" ->
                   \* if end_date < start_date: raise ValueError
                   /\ UNCHANGED <<session, budget>>
                   /\ IF range_ok
                      THEN /\ pc' = "b_day" /\ activeRuns' = activeRuns + 1
                           /\ UNCHANGED <<outcome, ret>>
                      ELSE /\ pc' = "w_emit" /\ outcome' = "raised"
                           /\ UNCHANGED <<ret, activeRuns>>
              [] site_key = "comprar_tics" ->
                   \* os.makedirs(output_dir, exist_ok=True), which may fail;
                   \* then session = requests.Session()
                   \/ /\ session' = "open"
                      /\ pc' = "c_listing" /\ activeRuns' = activeRuns + 1
                      /\ UNCHANGED <<outcome, ret, budget>>
                   \/ /\ budget > 0 /\ budget' = budget - 1
                      /\ pc' = "w_emit" /\ outcome' = "raised"
                      /\ UNCHANGED <<ret, activeRuns, session>>
              [] site_key = "comprar_tics_robot" ->
                   \* os.makedirs(output_dir, exist_ok=True) and
                   \* driver = crear_driver(headless=True), either of which may fail
                   \/ /\ session' = "open"
                      /\ pc' = "r_open" /\ activeRuns' = activeRuns + 1
                      /\ UNCHANGED <<outcome, ret, budget>>
                   \/ /\ budget > 0 /\ budget' = budget - 1
                      /\ pc' = "w_emit" /\ outcome' = "raised"
                      /\ UNCHANGED <<ret, activeRuns, session>>

\* the worker's own progress emission after the adapter returned
EmitsFinal100(canc, count) == ~canc /\ count > 0

\* a run() whose except clause swallows the exception
TerminalSignalsNoError(out, count, canc) ==
    IF out = "returned"
    THEN <<[sig |-> "finished", count |-> count, cancelled |-> canc]>>
    ELSE <<>>

\* ScraperWorker.run: finished.emit(count, cancelled) at the end of the try,
\* error.emit(str(e)) in the except
TerminalSignals(out, count, canc) ==
    IF out = "returned"
    THEN <<[sig |-> "finished", count |-> count, cancelled |-> canc]>>
    ELSE <<[sig |-> "error"]>>

\* ScraperWorker.run after the adapter returned: cancelled = self._cancelled
WorkerRead ==
    /\ pc = "w_emit" /\ outcome = "returned"
    /\ cancelled' = cancelFlag
    /\ pc' = "w_signal"
    /\ UNCHANGED <<site_key, range_ok, pages, budget, cancelFlag, outcome, ret,
                   emitted, pending, activeRuns>>
    /\ UNCHANGED adapterVars

\* ScraperWorker.run: the emissions that end it.  After the read of the flag,
\* progressChanged.emit(100) under its condition and finished.emit; in the
\* except clause, error.emit
WorkerEmit ==
    /\ \/ pc = "w_signal"
       \/ pc = "w_emit" /\ outcome = "raised"
    /\ pc' = "w_done"
    /\ LET term == TerminalSignals(outcome, ret, cancelled)
       IN /\ emitted' = emitted
                \o (IF outcome = "returned" /\ EmitsFinal100(cancelled, ret)
                    THEN <<[sig |-> "progress", value |-> 100]>> ELSE <<>>)
                \o term
          /\ pending' = pending \o term
    /\ UNCHANGED <<site_key, range_ok, pages, budget, cancelFlag, outcome, ret,
                   cancelled, activeRuns>>
    /\ UNCHANGED adapterVars

-----------------------------------------------------------------------------
(* scrape_comprar_tics *)

\* _iter_compras_pages: one listing page is fetched; raise_for_status may raise.
\* After the last page: total = len(list_rows); an empty listing reports 100.
ComprarListing ==
    /\ pc = "c_listing"
    /\ fetchObs' = Fetch(fetchObs, cancelObs)
    /\ UNCHANGED <<workerIdle, day_index, idx, n_av, filas, pagina, total_procesos,
                   records, written, fileWritten, session, cancelObs, attempted>>
    /\ \/ /\ budget > 0 /\ budget' = budget - 1
          /\ Raises
          /\ UNCHANGED <<page, total, progress, listed, requested>>
       \/ /\ UNCHANGED budget
          /\ listed' = listed + pages[page]
          /\ UNCHANGED requested
          /\ IF page < Len(pages)
             THEN /\ page' = page + 1
                  /\ pc' = "c_listing" /\ Running
                  /\ UNCHANGED <<total, progress>>
             ELSE /\ total' = SumSeq(pages)
                  /\ UNCHANGED page
                  /\ IF SumSeq(pages) = 0
                     THEN /\ progress' = Append(progress, 100)
                          /\ Returns(0)
                     ELSE /\ pc' = "c_rows" /\ Running
                          /\ UNCHANGED progress

\* top of `for idx, row in enumerate(list_rows, start=1)`: the end of the loop,
\* or the poll `if is_cancelled and is_cancelled(): break`
ComprarRow ==
    /\ pc = "c_rows"
    /\ UNCHANGED <<workerIdle, budget, page, day_index, idx, total, n_av, filas,
                   pagina, total_procesos, records, progress, written,
                   fileWritten, session, attempted, listed, requested>>
    /\ Running
    /\ IF idx = total
       THEN /\ pc' = "c_export"
            /\ UNCHANGED <<cancelObs, fetchObs>>
       ELSE IF cancelFlag
       THEN /\ cancelObs' = PollTrue(cancelObs, Len(records))
            /\ pc' = "c_export"
            /\ UNCHANGED fetchObs
       ELSE /\ fetchObs' = PollFalse(fetchObs)
            /\ pc' = "c_detail"
            /\ UNCHANGED cancelObs

\* the rest of the loop body: the detail request (by URL or by postback), the
\* merge, records.append(merged) and progress_callback(int(idx * 100 / total))
ComprarDetail ==
    /\ pc = "c_detail"
    /\ UNCHANGED <<workerIdle, page, day_index, total, n_av, filas, pagina,
                   total_procesos, written, fileWritten, session, cancelObs,
                   listed, requested>>
    /\ Running
    /\ \E c \in Allowed(site_key) :
            /\ budget' = budget - Cost(c)
            /\ fetchObs' = Fetch(fetchObs, cancelObs)
            /\ attempted' = Append(attempted, [row |-> idx + 1, c |-> c])
            /\ records' = HttpRecords(records, c, idx + 1)
            /\ progress' = Append(progress, PortalProgress(idx + 1, total))
            /\ idx' = RowLoopNext(idx, total, c)
            /\ pc' = "c_rows"

\* after the loop: nothing to export, or to_excel (which may raise) and 100
ComprarExport ==
    /\ pc = "c_export"
    /\ UNCHANGED <<workerIdle, page, day_index, idx, total, n_av, filas, pagina,
                   total_procesos, records, session, cancelObs, fetchObs, attempted,
                   listed, requested>>
    /\ IF FrameEmpty(records)
       THEN /\ progress' = Append(progress, 100)
            /\ Returns(0)
            /\ UNCHANGED <<budget, written, fileWritten>>
       ELSE \/ /\ written' = records /\ fileWritten' = TRUE
               /\ progress' = Append(progress, 100)
               /\ Returns(Len(records))
               /\ UNCHANGED budget
            \/ /\ budget > 0 /\ budget' = budget - 1
               /\ Raises
               /\ UNCHANGED <<written, fileWritten, progress>>

-----------------------------------------------------------------------------
(* scrape_boletin_tercera *)

\* total_days = (end_date - start_date).days + 1
total_days == Len(pages)

\* a day loop that moves on by two days
NextDaySkips(fecha_actual) == fecha_actual + 2

\* fecha_actual += timedelta(days=1)
NextDay(fecha_actual) == fecha_actual + 1

\* top of `while fecha_actual <= end_date`: the end of the loop, or the
\* day-level poll
BoletinDay ==
    /\ pc = "b_day"
    /\ UNCHANGED <<workerIdle, budget, page, day_index, idx, total, n_av, filas,
                   pagina, total_procesos, records, progress, written,
                   fileWritten, session, attempted, listed, requested>>
    /\ Running
    /\ IF page > Len(pages)
       THEN /\ pc' = "b_export"
            /\ UNCHANGED <<cancelObs, fetchObs>>
       ELSE IF cancelFlag
       THEN /\ cancelObs' = PollTrue(cancelObs, Len(records))
            /\ pc' = "b_export"
            /\ UNCHANGED fetchObs
       ELSE /\ fetchObs' = PollFalse(fetchObs)
            /\ pc' = "b_listado"
            /\ UNCHANGED cancelObs

\* avisos = _get_listado_avisos(fecha_actual), which answers [] when the
\* request fails; n_av = len(avisos); a day without notices reports the day's
\* progress and moves on
BoletinListado ==
    /\ pc = "b_listado"
    /\ UNCHANGED <<workerIdle, idx, total, filas, pagina, total_procesos, records,
                   written, fileWritten, session, cancelObs, attempted>>
    /\ Running
    /\ \E n \in {pages[page]} \cup (IF budget > 0 THEN {0} ELSE {}) :
            /\ budget' = IF n = pages[page] THEN budget ELSE budget - 1
            /\ fetchObs' = Fetch(fetchObs, cancelObs)
            /\ n_av' = n
            /\ listed' = listed + n
            /\ requested' = Append(requested, page)
            /\ IF n = 0
               THEN /\ day_index' = day_index + 1
                    /\ progress' = Append(progress,
                                          BoletinDayPct(day_index + 1, total_days))
                    /\ page' = NextDay(page)
                    /\ pc' = "b_day"
               ELSE /\ pc' = "b_aviso"
                    /\ UNCHANGED <<page, day_index, progress>>

\* top of `for idx_aviso, aviso in enumerate(avisos, start=1)`: the end of the
\* loop, or the notice-level poll
BoletinAviso ==
    /\ pc = "b_aviso"
    /\ UNCHANGED <<workerIdle, budget, page, day_index, idx, total, n_av, filas,
                   pagina, total_procesos, records, progress, written,
                   fileWritten, session, attempted, listed, requested>>
    /\ Running
    /\ IF idx = n_av
       THEN /\ pc' = "b_dayend"
            /\ UNCHANGED <<cancelObs, fetchObs>>
       ELSE IF cancelFlag
       THEN /\ cancelObs' = PollTrue(cancelObs, Len(records))
            /\ pc' = "b_dayend"
            /\ UNCHANGED fetchObs
       ELSE /\ fetchObs' = PollFalse(fetchObs)
            /\ pc' = "b_parse"
            /\ UNCHANGED cancelObs

\* data = _parse_aviso(aviso["url"]); an exception skips the notice
\* (`continue`), otherwise registros.append(data)
BoletinParse ==
    /\ pc = "b_parse"
    /\ UNCHANGED <<workerIdle, page, day_index, total, n_av, filas, pagina,
                   total_procesos, progress, written, fileWritten, session,
                   cancelObs, listed, requested>>
    /\ Running
    /\ \E c \in Allowed(site_key) :
            /\ budget' = budget - Cost(c)
            /\ fetchObs' = Fetch(fetchObs, cancelObs)
            /\ attempted' = Append(attempted, [row |-> RowNo(page, idx + 1), c |-> c])
            /\ idx' = RowLoopNext(idx, n_av, c)
            /\ records' = BoletinRecords(records, c, RowNo(page, idx + 1))
            /\ pc' = IF c.det = "ok" THEN "b_sleep" ELSE "b_aviso"

\* time.sleep(REQUEST_DELAY), then the notice's progress
BoletinSleep ==
    /\ pc = "b_sleep"
    /\ UNCHANGED <<workerIdle, budget, page, day_index, idx, total, n_av, filas,
                   pagina, total_procesos, records, written, fileWritten, session,
                   cancelObs, fetchObs, attempted, listed, requested>>
    /\ Running
    /\ progress' = Append(progress,
                          BoletinAvisoPct(day_index, idx, n_av, total_days))
    /\ pc' = "b_aviso"

\* after the notices of a day: poll again, then the next day
BoletinDayEnd ==
    /\ pc = "b_dayend"
    /\ UNCHANGED <<workerIdle, budget, total, n_av, filas, pagina, total_procesos,
                   records, progress, written, fileWritten, session, fetchObs,
                   attempted, listed, requested>>
    /\ Running
    /\ IF cancelFlag
       THEN /\ cancelObs' = PollTrue(cancelObs, Len(records))
            /\ pc' = "b_export"
            /\ UNCHANGED <<page, day_index, idx>>
       ELSE /\ day_index' = day_index + 1
            /\ page' = NextDay(page)
            /\ idx' = 0
            /\ pc' = "b_day"
            /\ UNCHANGED cancelObs

\* export: an empty DataFrame returns 0; to_excel may raise, which is re-raised
BoletinExport ==
    /\ pc = "b_export"
    /\ UNCHANGED <<workerIdle, page, day_index, idx, total, n_av, filas, pagina,
                   total_procesos, records, progress, session, cancelObs, fetchObs,
                   attempted, listed, requested>>
    /\ IF FrameEmpty(records)
       THEN /\ Returns(0)
            /\ UNCHANGED <<budget, written, fileWritten>>
       ELSE \/ /\ written' = records /\ fileWritten' = TRUE
               /\ Returns(Len(records))
               /\ UNCHANGED budget
            \/ /\ budget > 0 /\ budget' = budget - 1
               /\ Raises
               /\ UNCHANGED <<written, fileWritten>>

-----------------------------------------------------------------------------
(* ejecutar_robot and scrape_comprar_tics_robot *)

\* the `finally` of ejecutar_robot: driver.quit()
Quit == "closed"

\* ir_a_listado: open the portal and click "Ver todos"; a wait may time out
RobotOpen ==
    /\ pc = "r_open"
    /\ fetchObs' = Fetch(fetchObs, cancelObs)
    /\ UNCHANGED <<workerIdle, page, day_index, idx, total, n_av, filas, pagina,
                   total_procesos, records, progress, written, fileWritten,
                   cancelObs, attempted, listed, requested>>
    /\ \/ /\ pc' = "r_page" /\ Running
          /\ UNCHANGED <<budget, session>>
       \/ /\ budget > 0 /\ budget' = budget - 1
          /\ session' = Quit
          /\ Raises

\* top of `while True`: filas = obtener_filas_listado(driver.page_source)
RobotPage ==
    /\ pc = "r_page"
    /\ UNCHANGED <<workerIdle, budget, page, day_index, total, n_av, pagina,
                   total_procesos, records, progress, written, fileWritten,
                   cancelObs, fetchObs, attempted>>
    /\ Running
    /\ filas' = pages[page]
    /\ listed' = listed + pages[page]
    /\ UNCHANGED requested
    /\ idx' = 0
    /\ IF pages[page] = 0
       THEN /\ session' = Quit /\ pc' = "r_wrap"
       ELSE /\ pc' = "r_rows" /\ UNCHANGED session

\* top of `for idx, fila in enumerate(filas)`: the end of the loop, or the poll
RobotRow ==
    /\ pc = "r_rows"
    /\ UNCHANGED <<workerIdle, budget, page, day_index, idx, total, n_av, filas,
                   pagina, total_procesos, progress, written, fileWritten,
                   attempted, listed, requested>>
    /\ Running
    /\ IF idx = filas
       THEN /\ pc' = "r_pageend"
            /\ UNCHANGED <<records, session, cancelObs, fetchObs>>
       ELSE IF cancelFlag
       THEN \* return the DataFrame built so far; the finally quits the driver
            /\ cancelObs' = PollTrue(cancelObs, Len(records))
            /\ records' = CancelledFrame(records)
            /\ session' = Quit
            /\ pc' = "r_wrap"
            /\ UNCHANGED fetchObs
       ELSE /\ fetchObs' = PollFalse(fetchObs)
            /\ pc' = "r_detalle"
            /\ UNCHANGED <<records, session, cancelObs>>

\* detalle = scrapear_detalle_proceso(driver, numero); without a detail the
\* row is skipped, otherwise the merge, registros.append(registro),
\* total_procesos += 1 and progress_callback(min(total_procesos, 99))
RobotDetalle ==
    /\ pc = "r_detalle"
    /\ UNCHANGED <<workerIdle, page, day_index, total, n_av, filas, pagina,
                   written, fileWritten, session, cancelObs, listed, requested>>
    /\ Running
    /\ \E c \in Allowed(site_key) :
            /\ budget' = budget - Cost(c)
            /\ fetchObs' = Fetch(fetchObs, cancelObs)
            /\ attempted' = Append(attempted, [row |-> RowNo(page, idx + 1), c |-> c])
            /\ idx' = RowLoopNext(idx, filas, c)
            /\ pc' = "r_rows"
            /\ records' = RobotRecords(records, c, RowNo(page, idx + 1))
            /\ IF RobotSkips(c)
               THEN UNCHANGED <<total_procesos, progress>>
               ELSE /\ total_procesos' = total_procesos + 1
                    /\ progress' = Append(progress, RobotProgress(total_procesos + 1))

\* pagina += 1; stop at max_paginas; else ir_a_pagina, which fails when the
\* pager has no link for that page
RobotPageEnd ==
    /\ pc = "r_pageend"
    /\ UNCHANGED <<workerIdle, budget, day_index, idx, total, n_av, filas,
                   total_procesos, records, progress, written, fileWritten,
                   cancelObs, attempted, listed, requested>>
    /\ Running
    /\ pagina' = pagina + 1
    /\ IF pagina + 1 > MaxPaginas
       THEN /\ session' = Quit /\ pc' = "r_wrap"
            /\ UNCHANGED <<page, fetchObs>>
       ELSE IF page < Len(pages)
       THEN /\ fetchObs' = Fetch(fetchObs, cancelObs)
            /\ page' = page + 1
            /\ pc' = "r_page"
            /\ UNCHANGED session
       ELSE /\ session' = Quit /\ pc' = "r_wrap"
            /\ UNCHANGED <<page, fetchObs>>

\* scrape_comprar_tics_robot after ejecutar_robot returned its DataFrame
RobotWrap ==
    /\ pc = "r_wrap"
    /\ UNCHANGED <<workerIdle, page, day_index, idx, total, n_av, filas, pagina,
                   total_procesos, records, session, cancelObs, fetchObs, attempted,
                   listed, requested>>
    /\ IF FrameEmpty(records)
       THEN /\ progress' = Append(progress, 100)
            /\ Returns(0)
            /\ UNCHANGED <<budget, written, fileWritten>>
       ELSE \/ /\ written' = records /\ fileWritten' = TRUE
               /\ progress' = Append(progress, 100)
               /\ Returns(Len(records))
               /\ UNCHANGED budget
            \/ /\ budget > 0 /\ budget' = budget - 1
               /\ Raises
               /\ UNCHANGED <<written, fileWritten, progress>>

-----------------------------------------------------------------------------
(* ScraperWindow *)

\* a Start button left enabled while the worker runs
StartStaysEnabled == TRUE

\* _on_start_clicked: self.btn_start.setEnabled(False)
StartEnabledWhileRunning == FALSE

\* _on_start_clicked.  The three early returns (no site, Desde > Hasta, no
\* directory) leave the window as it was; otherwise the buttons are switched,
\* a new worker is created on a new thread and the thread is started.
OnStartClicked ==
    /\ btn_start
    /\ started < MaxRuns
    /\ \E key \in SiteKeys, valid \in BOOLEAN, lay \in ShellLayouts :
         IF ~valid
         THEN UNCHANGED vars
         ELSE /\ btn_start' = StartEnabledWhileRunning
              /\ btn_cancel' = TRUE
              /\ worker' = "worker"
              /\ site_key' = key /\ range_ok' = TRUE /\ pages' = lay
              /\ budget' = MaxFaults
              /\ cancelFlag' = FALSE
              /\ pc' = "ready"
              /\ outcome' = "running" /\ ret' = 0
              /\ page' = 1 /\ day_index' = 0 /\ idx' = 0 /\ total' = 0 /\ n_av' = 0
              /\ filas' = 0 /\ pagina' = 1 /\ total_procesos' = 0
              /\ records' = <<>> /\ progress' = <<>> /\ written' = <<>>
              /\ fileWritten' = FALSE /\ session' = "none"
              /\ cancelObs' = [seen |-> FALSE, k |-> 0]
              /\ fetchObs' = [polled |-> FALSE, unpolled |-> FALSE,
                              afterCancel |-> FALSE]
              /\ attempted' = <<>> /\ listed' = 0 /\ requested' = <<>>
              /\ emitted' = <<>> /\ cancelled' = FALSE
              /\ started' = started + 1
              /\ UNCHANGED <<pending, activeRuns, handled>>

\* _on_cancel_clicked
OnCancelClicked ==
    /\ btn_cancel
    /\ worker # "none"
    /\ cancelFlag' = TRUE
    /\ btn_cancel' = FALSE
    /\ UNCHANGED <<site_key, range_ok, pages, budget, pc, outcome, ret, emitted,
                   cancelled,
                   pending, activeRuns, btn_start, worker, started, handled>>
    /\ UNCHANGED adapterVars

\* _on_finished, run by the window's thread when the queued signal is delivered
OnFinished ==
    /\ pending # <<>>
    /\ Head(pending).sig = "finished"
    /\ pending' = Tail(pending)
    /\ btn_start' = TRUE
    /\ btn_cancel' = FALSE
    /\ handled' = handled + 1
    /\ UNCHANGED <<site_key, range_ok, pages, budget, cancelFlag, pc, outcome, ret,
                   emitted, cancelled, activeRuns, worker, started>>
    /\ UNCHANGED adapterVars

\* _on_error
OnError ==
    /\ pending # <<>>
    /\ Head(pending).sig = "error"
    /\ pending' = Tail(pending)
    /\ btn_start' = TRUE
    /\ btn_cancel' = FALSE
    /\ handled' = handled + 1
    /\ UNCHANGED <<site_key, range_ok, pages, budget, cancelFlag, pc, outcome, ret,
                   emitted, cancelled, activeRuns, worker, started>>
    /\ UNCHANGED adapterVars

-----------------------------------------------------------------------------
(* Text values and the text functions *)

\* no utility function is being applied
NoCall ==
    /\ call = "none"
    /\ arg = [t |-> "none", v |-> <<>>, n |-> 0]
    /\ result = [done |-> FALSE]
    /\ upload = [pc |-> "none"]

\* a Python value as the text functions see it: None, a str of characters, or
\* a non-negative int
PyNone == [t |-> "none", v |-> <<>>, n |-> 0]
PyStr(chars) == [t |-> "str", v |-> chars, n |-> 0]
PyInt(k) == [t |-> "int", v |-> <<>>, n |-> k]

\* the characters of the texts explored: the letters s, d, a in lower and upper
\* case, each also precomposed with an acute accent (written with a quote), the
\* combining acute accent on its own, and a character that is no letter
Letters == {"s", "d", "a"}
CombiningAcute == "^"
Chars == {"s", "S", "s'", "S'", "d", "D", "d'", "D'", "a", "A", "a'", "A'",
          CombiningAcute, "-"}

\* unicodedata.normalize("NFD", c): a precomposed letter becomes the letter
\* followed by the combining accent
NFD(c) ==
    CASE c = "s'" -> <<"s", CombiningAcute>>
      [] c = "S'" -> <<"S", CombiningAcute>>
      [] c = "d'" -> <<"d", CombiningAcute>>
      [] c = "D'" -> <<"D", CombiningAcute>>
      [] c = "a'" -> <<"a", CombiningAcute>>
      [] c = "A'" -> <<"A", CombiningAcute>>
      [] OTHER -> <<c>>

\* unicodedata.combining(c) != 0
Combining(c) == c = CombiningAcute

\* str.lower on one character
LowerChar(c) ==
    CASE c = "S" -> "s"
      [] c = "D" -> "d"
      [] c = "A" -> "a"
      [] c = "S'" -> "s'"
      [] c = "D'" -> "d'"
      [] c = "A'" -> "a'"
      [] OTHER -> c

RECURSIVE FlatMap(_, _)
FlatMap(Op(_), q) == IF q = <<>> THEN <<>> ELSE Op(Head(q)) \o FlatMap(Op, Tail(q))

\* _strip_accents: "" for an empty text, else NFD without the combining marks
_strip_accents(q) ==
    IF q = <<>> THEN <<>>
    ELSE SelectSeq(FlatMap(NFD, q), LAMBDA c : ~Combining(c))

Lower(q) == [i \in DOMAIN q |-> LowerChar(q[i])]

\* `kw in txt`
IsSubstring(kw, txt) ==
    \E i \in 0..(Len(txt) - Len(kw)) : SubSeq(txt, i + 1, i + Len(kw)) = kw

\* the keywords of TIC_KEYWORDS written with the letters above
TIC_KEYWORDS == << <<"s", "s", "d">>, <<"s", "a", "a", "s">> >>

\* a text normalisation that forgets to lower-case
TextNormKeepsCase(q) == _strip_accents(q)

\* es_tic: txt = _strip_accents(texto).lower()
TextNorm(q) == Lower(_strip_accents(q))

\* es_tic: the loop over the keywords
RECURSIVE KeywordLoop(_, _)
KeywordLoop(kws, txt) ==
    IF kws = <<>> THEN FALSE
    ELSE LET kw_norm == Lower(_strip_accents(Head(kws)))
         IN  IF Len(kw_norm) <= 2 THEN KeywordLoop(Tail(kws), txt)
             ELSE IF IsSubstring(kw_norm, txt) THEN TRUE
             ELSE KeywordLoop(Tail(kws), txt)

es_tic(texto) ==
    IF texto.t = "none" \/ texto.v = <<>> THEN FALSE
    ELSE KeywordLoop(TIC_KEYWORDS, TextNorm(texto.v))

-----------------------------------------------------------------------------
(* sanitizar_doc_id, in its three copies *)

\* the characters str.strip() and the pattern \s treat as whitespace
Whitespace == {" ", "\t"}

DigitChars == <<"0", "1", "2", "3", "4", "5", "6", "7", "8", "9">>

\* str(n) for a non-negative int
RECURSIVE StrOfInt(_)
StrOfInt(k) ==
    IF k < 10 THEN <<DigitChars[k + 1]>>
    ELSE Append(StrOfInt(k \div 10), DigitChars[(k % 10) + 1])

\* str(base)
StrOf(x) ==
    CASE x.t = "str" -> x.v
      [] x.t = "int" -> StrOfInt(x.n)
      [] x.t = "none" -> <<"N", "o", "n", "e">>

\* str.strip()
RECURSIVE LStrip(_)
LStrip(q) == IF q # <<>> /\ Head(q) \in Whitespace THEN LStrip(Tail(q)) ELSE q

RECURSIVE RStrip(_)
RStrip(q) ==
    IF q # <<>> /\ q[Len(q)] \in Whitespace THEN RStrip(SubSeq(q, 1, Len(q) - 1)) ELSE q

Strip(q) == RStrip(LStrip(q))

\* a replace that leaves the text as it is
ReplaceNothing(q, old, new) == q

\* str.replace(old, new) for single characters
Replace(q, old, new) == [i \in DOMAIN q |-> IF q[i] = old THEN new ELSE q[i]]

\* re.sub(r"\s+", "_", s): every maximal run of whitespace becomes one "_"
RECURSIVE SubWhitespaceRuns(_)
SubWhitespaceRuns(q) ==
    IF q = <<>> THEN <<>>
    ELSE IF Head(q) \in Whitespace
         THEN <<"_">> \o SubWhitespaceRuns(LStrip(q))
         ELSE <<Head(q)>> \o SubWhitespaceRuns(Tail(q))

\* proyectos/subir_a_firestore.py
sanitizar_doc_id(base) ==
    LET s0 == Strip(StrOf(base))
        s1 == Replace(s0, "/", "-")
        s2 == Replace(s1, "\\", "-")
    IN  SubWhitespaceRuns(s2)

\* proyectos/subir_a_bigquery.py
sanitizar_doc_id_bq(base) ==
    SubWhitespaceRuns(Replace(Replace(Strip(StrOf(base)), "/", "-"), "\\", "-"))

\* compras_to_bigquery.py
sanitizar_doc_id_compras(base) ==
    SubWhitespaceRuns(Replace(Replace(Strip(StrOf(base)), "/", "-"), "\\", "-"))

\* the characters of the identifiers explored
IdChars == {"/", "\\", " ", "\t", "a", "-", "_"}

\* the identifier of the specification's example and what it is sanitized to
DocIdExample ==
    <<"1", "4", "/", "1", "-", "0", "0", "2", "6", " ", "L", "P", "R", "2", "5">>
DocIdExampleSanitized ==
    <<"1", "4", "-", "1", "-", "0", "0", "2", "6", "_", "L", "P", "R", "2", "5">>

\* sanitizar_doc_id(base) is called, in each of its copies, and once more on
\* what it returned
SanitizarCall ==
    /\ call = "sanitizar_doc_id" /\ ~result.done
    /\ result' = [done |-> TRUE,
                  val |-> sanitizar_doc_id(arg),
                  twice |-> sanitizar_doc_id(PyStr(sanitizar_doc_id(arg))),
                  bq |-> sanitizar_doc_id_bq(arg),
                  bq_twice |-> sanitizar_doc_id_bq(PyStr(sanitizar_doc_id_bq(arg))),
                  compras |-> sanitizar_doc_id_compras(arg),
                  compras_twice |->
                      sanitizar_doc_id_compras(PyStr(sanitizar_doc_id_compras(arg)))]
    /\ UNCHANGED <<call, arg, upload>>

-----------------------------------------------------------------------------
(* obtener_anio_desde_fecha and preparar_registro_para_firestore *)

IsDigit(c) == \E k \in DOMAIN DigitChars : DigitChars[k] = c
DigitVal(c) == (CHOOSE k \in DOMAIN DigitChars : DigitChars[k] = c) - 1

\* int(m.group(1))
RECURSIVE IntOf(_)
IntOf(q) == IF q = <<>> THEN 0 ELSE 10 * IntOf(SubSeq(q, 1, Len(q) - 1)) + DigitVal(q[Len(q)])

\* a search for the first single digit instead of four in a row
FourDigitStartsAnyDigit(q) == {i \in DOMAIN q : IsDigit(q[i])}

\* re.search(r"(\d{4})", s): the positions where four digits in a row start
FourDigitStarts(q) ==
    {i \in 1..(Len(q) - 3) : \A j \in 0..3 : IsDigit(q[i + j])}

\* obtener_anio_desde_fecha (the three copies are the same text)
obtener_anio_desde_fecha(fecha_apertura) ==
    IF fecha_apertura.t # "str" THEN PyNone
    ELSE LET starts == FourDigitStarts(fecha_apertura.v)
         IN  IF starts = {} THEN PyNone
             ELSE LET i == CHOOSE k \in starts : \A m \in starts : k <= m
                  IN  PyInt(IntOf(SubSeq(fecha_apertura.v, i, Min(i + 3, Len(fecha_apertura.v)))))

\* firestore.SERVER_TIMESTAMP
SERVER_TIMESTAMP == [t |-> "sentinel", v |-> <<>>, n |-> 0]

\* dict.get(key): None when the key is absent
Get(d, key) == IF key \in DOMAIN d THEN d[key] ELSE PyNone

\* preparar_registro_para_firestore
preparar_registro_para_firestore(rec) ==
    LET anio == obtener_anio_desde_fecha(Get(rec, "fecha_apertura"))
        data == IF "anio" \notin DOMAIN rec /\ anio.t # "none"
                THEN rec @@ ("anio" :> anio)
                ELSE rec
    IN  ("fecha_carga" :> SERVER_TIMESTAMP) @@ data

\* the characters of the opening dates explored
DateChars == {"1", "2", "/"}

\* a record of the JSON file with the given opening date
RecordDated(fecha) ==
    ("numero_proceso" :> PyStr(<<"a">>)) @@ ("fecha_apertura" :> fecha)

\* obtener_anio_desde_fecha(fecha_apertura) is called, and
\* preparar_registro_para_firestore on a record with that opening date
AnioCall ==
    /\ call = "obtener_anio_desde_fecha" /\ ~result.done
    /\ result' = [done |-> TRUE,
                  val |-> obtener_anio_desde_fecha(arg),
                  data |-> preparar_registro_para_firestore(RecordDated(arg))]
    /\ UNCHANGED <<call, arg, upload>>

-----------------------------------------------------------------------------
(* The upload utilities: subir_a_firestore.py and subir_a_bigquery.py *)

\* Python truthiness of a value
PyTruthy(x) == (x.t = "str" /\ x.v # <<>>) \/ (x.t = "int" /\ x.n # 0)

\* f"doc_{idx}"
DocIndexId(i) == PyStr(<<"d", "o", "c", "_">> \o StrOfInt(i))

\* a document id that ignores the record and uses the index
DocIdByIndexOnly(rec, i) == sanitizar_doc_id(DocIndexId(i))

\* subir_registros_a_firestore: base_id = rec.get(id_field), doc_<idx> when it
\* is None; doc_id = sanitizar_doc_id(base_id)
DocId(rec, i) ==
    LET base_id == Get(rec, "numero_proceso")
    IN  sanitizar_doc_id(IF base_id.t = "none" THEN DocIndexId(i) ELSE base_id)

\* datetime.utcnow().isoformat() + "Z"
LoadTime == [t |-> "time", v |-> <<>>, n |-> 0]

\* preparar_fila (the columns that depend on the id and the opening date)
preparar_fila(rec) ==
    LET base_id == IF PyTruthy(Get(rec, "numero_proceso"))
                   THEN Get(rec, "numero_proceso") ELSE PyStr(<<>>)
        anio == IF PyTruthy(Get(rec, "anio")) THEN Get(rec, "anio")
                ELSE obtener_anio_desde_fecha(Get(rec, "fecha_apertura"))
    IN  [doc_id |-> IF PyTruthy(base_id) THEN PyStr(sanitizar_doc_id_bq(base_id))
                    ELSE PyNone,
         numero_proceso |-> Get(rec, "numero_proceso"),
         fecha_apertura |-> Get(rec, "fecha_apertura"),
         anio |-> anio,
         fecha_carga |-> LoadTime]

\* col_ref.document(doc_id).set(data): create or replace
Set(docs, key, data) == (key :> data) @@ docs

\* a load job that replaces the table (WRITE_TRUNCATE)
LoadTruncate(tbl, rows) == rows

\* load_table_from_json with WRITE_APPEND
LoadAppend(tbl, rows) == tbl \o rows

\* the records a JSON file may hold
IdA == PyStr(<<"a", "/", "b">>)
IdB == PyStr(<<"a", "-", "b">>)
Fecha2025 == PyStr(<<"1", "/", "2", "0", "2", "5">>)
RecPool ==
    {("numero_proceso" :> IdA) @@ ("fecha_apertura" :> Fecha2025),
     ("numero_proceso" :> IdB) @@ ("fecha_apertura" :> PyStr(<<"1", "/", "2">>)),
     ("numero_proceso" :> PyNone) @@ ("fecha_apertura" :> Fecha2025),
     ("fecha_apertura" :> Fecha2025)}

\* what is stored before the first upload: nothing, or the first record of the
\* pool from an earlier upload
StoredDoc == preparar_registro_para_firestore(
                 ("numero_proceso" :> IdA) @@ ("fecha_apertura" :> Fecha2025))
StoredRow == preparar_fila(("numero_proceso" :> IdA) @@ ("fecha_apertura" :> Fecha2025))

Sinks == {"firestore", "bigquery"}

\* the programs that load into the warehouse table: subir_a_bigquery.py and
\* compras_to_bigquery.py
BigQueryWriters == {"bigquery", "compras_to_bigquery"}

\* the programs that write to a store
Uploaders == Sinks \cup BigQueryWriters

\* the start of main(): nothing read, nothing written
UploadStart(sink, file, registros, cred, preloaded) ==
    [pc |-> "u_read", sink |-> sink, file |-> file, json |-> registros,
     cred |-> cred, registros |-> <<>>, idx |-> 0, round |-> 1, faults |-> MaxFaults,
     docs0 |-> IF preloaded /\ sink = "firestore"
               THEN (sanitizar_doc_id(IdA) :> StoredDoc) ELSE <<>>,
     docs |-> IF preloaded /\ sink = "firestore"
              THEN (sanitizar_doc_id(IdA) :> StoredDoc) ELSE <<>>,
     table0 |-> IF preloaded /\ sink \in BigQueryWriters THEN <<StoredRow>> ELSE <<>>,
     table |-> IF preloaded /\ sink \in BigQueryWriters THEN <<StoredRow>> ELSE <<>>,
     writes |-> <<>>, loads |-> 0, keys_once |-> {}]

\* leer_json: the file must exist and hold a list
LeerJson ==
    /\ upload.pc = "u_read" /\ upload.sink \in Sinks
    /\ upload' =
          IF upload.file = "missing" \/ upload.file = "not_a_list"
          THEN [upload EXCEPT !.pc = "u_raised"]
          ELSE [upload EXCEPT !.pc = "u_client", !.registros = upload.json]
    /\ UNCHANGED <<call, arg, result>>

\* a client built without looking at the credentials file
ClientUnchecked(cred) == "u_write"

\* crear_cliente_firestore / crear_cliente_bigquery: a credentials path that
\* is given must exist, else FileNotFoundError
ClientFor(cred) == IF cred = "missing" THEN "u_raised" ELSE "u_write"

CrearCliente ==
    /\ upload.pc = "u_client"
    /\ upload' = [upload EXCEPT !.pc = ClientFor(upload.cred)]
    /\ UNCHANGED <<call, arg, result>>

\* subir_registros_a_firestore: one iteration of the loop; set() may fail
FirestoreSet ==
    /\ upload.pc = "u_write" /\ upload.sink = "firestore"
    /\ UNCHANGED <<call, arg, result>>
    /\ IF upload.idx = Len(upload.registros)
       THEN upload' = [upload EXCEPT
                          !.pc = "u_done",
                          !.keys_once = IF upload.round = 1
                                        THEN DOMAIN upload.docs ELSE @]
       ELSE LET i == upload.idx + 1
                rec == upload.registros[i]
                doc_id == DocId(rec, i)
                data == preparar_registro_para_firestore(rec)
            IN  \/ upload' = [upload EXCEPT
                                 !.idx = i,
                                 !.docs = Set(upload.docs, doc_id, data),
                                 !.writes = Append(upload.writes,
                                     [round |-> upload.round, key |-> doc_id,
                                      data |-> data])]
                \/ /\ upload.faults > 0
                   /\ upload' = [upload EXCEPT !.pc = "u_raised",
                                                !.faults = upload.faults - 1]

\* the rows handed to the load job: subir_a_bigquery.py prepares one row per
\* record of the file, compras_to_bigquery.py passes its registros as they are
Filas(up) ==
    IF up.sink = "bigquery"
    THEN [i \in DOMAIN up.registros |-> preparar_fila(up.registros[i])]
    ELSE up.registros

\* subir_a_bigquery up to client.load_table_from_json(filas, table_ref,
\* job_config): the load job is submitted, or the call raises
BigQueryLoad ==
    /\ upload.pc = "u_write" /\ upload.sink \in BigQueryWriters
    /\ UNCHANGED <<call, arg, result>>
    /\ \/ upload' = [upload EXCEPT !.pc = "u_job"]
       \/ /\ upload.faults > 0
          /\ upload' = [upload EXCEPT !.pc = "u_raised",
                                       !.faults = upload.faults - 1]

\* job.result(): the job has appended the rows (WRITE_APPEND), or it failed,
\* nothing was loaded and the call raises
BigQueryResult ==
    /\ upload.pc = "u_job"
    /\ UNCHANGED <<call, arg, result>>
    /\ \/ upload' = [upload EXCEPT
                        !.pc = "u_table",
                        !.idx = Len(Filas(upload)),
                        !.table = LoadAppend(upload.table, Filas(upload)),
                        !.loads = upload.loads + 1]
       \/ /\ upload.faults > 0
          /\ upload' = [upload EXCEPT !.pc = "u_raised",
                                       !.faults = upload.faults - 1]

\* tabla = client.get_table(table_ref), after the load: it returns and the
\* program ends, or it raises with the rows already in the table
BigQueryGetTable ==
    /\ upload.pc = "u_table"
    /\ UNCHANGED <<call, arg, result>>
    /\ \/ upload' = [upload EXCEPT !.pc = "u_done"]
       \/ /\ upload.faults > 0
          /\ upload' = [upload EXCEPT !.pc = "u_raised",
                                       !.faults = upload.faults - 1]

\* the program is run once more on the same input
UploadAgain ==
    /\ upload.pc = "u_done"
    /\ upload.round < MaxUploads
    /\ upload' = [upload EXCEPT !.pc = "u_read", !.idx = 0, !.registros = <<>>,
                                !.round = upload.round + 1]
    /\ UNCHANGED <<call, arg, result>>

-----------------------------------------------------------------------------
(* _iter_compras_pages *)

\* Optional[int]
NoInt == [some |-> FALSE, n |-> 0]
SomeInt(k) == [some |-> TRUE, n |-> k]

\* the `for idx, url in enumerate(simple_links, start=2)` loop: the pages the
\* links lead to, fetched in the order of the links
RECURSIVE SimpleLinksLoop(_, _, _)
SimpleLinksLoop(links, i, max_pages) ==
    IF links = <<>> THEN <<>>
    ELSE IF max_pages.some /\ i > max_pages.n THEN <<>>
    ELSE <<Head(links)>> \o SimpleLinksLoop(Tail(links), i + 1, max_pages)

\* a postback loop that does not look at max_pages
RECURSIVE PostbackLoopNoMax(_, _, _)
PostbackLoopNoMax(p, total_pages, max_pages) ==
    IF p > total_pages THEN <<>>
    ELSE <<p>> \o PostbackLoopNoMax(p + 1, total_pages, max_pages)

\* the `for page in range(2, total_pages + 1)` loop: Page$2, Page$3, ... posted
RECURSIVE PostbackLoop(_, _, _)
PostbackLoop(p, total_pages, max_pages) ==
    IF p > total_pages THEN <<>>
    ELSE IF max_pages.some /\ p > max_pages.n THEN <<>>
    ELSE <<p>> \o PostbackLoop(p + 1, total_pages, max_pages)

\* _iter_compras_pages: the numbers of the listing pages returned, in order.
\* site is what page 1 shows: the links of a simple pager (the page each leads
\* to), whether a __doPostBack pager is present, the announced total and the
\* rows of page 1.
_iter_compras_pages(site, max_pages) ==
    LET total_results == site.total_results
        page_size == site.page_size
        total_pages == IF total_results.some /\ page_size # 0
                       THEN SomeInt((total_results.n + page_size - 1) \div page_size)
                       ELSE NoInt
    IN  IF site.simple_links # <<>>
        THEN <<1>> \o SimpleLinksLoop(site.simple_links, 2, max_pages)
        ELSE IF ~site.pager_target \/ ~total_pages.some \/ total_pages.n = 0
                   \/ total_pages.n <= 1
        THEN <<1>>
        ELSE <<1>> \o PostbackLoop(2, total_pages.n, max_pages)

\* page 1 shows no more rows than the total it announces
Consistent(tr, ps) == tr.some => ps <= tr.n

\* the total announced and the rows shown on page 1
Shown ==
    {sh \in ({NoInt} \cup {SomeInt(k) : k \in 0..MaxResults}) \X (0..MaxPageSize) :
        Consistent(sh[1], sh[2])}

\* what page 1 of the portal may show
Sites ==
    {[simple_links |-> IF pager \in {"simple", "both"}
                       THEN [i \in 1..(P - 1) |-> i + 1] ELSE <<>>,
      pager_target |-> pager \in {"postback", "both"},
      total_results |-> sh[1],
      page_size |-> sh[2]] :
        pager \in {"none", "simple", "postback", "both"}, P \in 1..MaxSitePages,
        sh \in Shown}

\* _iter_compras_pages(session, max_pages) is called
IterPagesCall ==
    /\ call = "_iter_compras_pages" /\ ~result.done
    /\ result' = [done |-> TRUE, val |-> _iter_compras_pages(arg.site, arg.max_pages)]
    /\ UNCHANGED <<call, arg, upload>>

-----------------------------------------------------------------------------
(* fetch_detalle_proceso_via_postback *)

\* dict.update: the keys of e replace those of d
Update(d, e) == e @@ d

\* _collect_form_state: name -> value of the form's hidden inputs, inputs
\* without a name skipped, a later input of the same name replacing an earlier
RECURSIVE HiddenLoop(_, _)
HiddenLoop(inputs, form_state) ==
    IF inputs = <<>> THEN form_state
    ELSE LET inp == Head(inputs)
         IN  HiddenLoop(Tail(inputs),
                        IF inp.name = "" THEN form_state
                        ELSE (inp.name :> inp.value) @@ form_state)

_collect_form_state(soup) ==
    IF ~soup.form THEN <<>> ELSE HiddenLoop(soup.hidden, <<>>)

\* _parse_postback_from_href: the two groups of __doPostBack('..','..')
_parse_postback_from_href(href) ==
    IF href.postback
    THEN [some |-> TRUE, event_target |-> href.target, event_argument |-> href.argument]
    ELSE [some |-> FALSE, event_target |-> "", event_argument |-> ""]

\* the form data posted: the target/argument pair and __LASTFOCUS, then
\* data.update(form_state)
PostbackData(postback_info, form_state) ==
    Update(("__EVENTTARGET" :> postback_info.event_target)
             @@ ("__EVENTARGUMENT" :> postback_info.event_argument)
             @@ ("__LASTFOCUS" :> ""),
           form_state)

\* fetch_detalle_proceso_via_postback up to its POST: None without a request
\* when the grid, the row, its link or the postback href is missing
fetch_detalle_proceso_via_postback(soup) ==
    IF ~soup.table \/ ~soup.row \/ ~soup.link
    THEN [posted |-> FALSE, data |-> <<>>]
    ELSE LET postback_info == _parse_postback_from_href(soup.href)
         IN  IF ~postback_info.some
             THEN [posted |-> FALSE, data |-> <<>>]
             ELSE [posted |-> TRUE,
                   data |-> PostbackData(postback_info, _collect_form_state(soup))]

HiddenNames == {"", "__VIEWSTATE", "__EVENTTARGET", "__EVENTARGUMENT"}
HiddenValues == {"", "x"}

\* the listing page as the function sees it
ListingSoups ==
    [form : BOOLEAN, table : BOOLEAN, row : BOOLEAN, link : BOOLEAN,
     href : {[postback |-> FALSE, target |-> "", argument |-> ""]}
               \cup [postback : {TRUE}, target : {"ctl03$lnk"}, argument : {"", "a"}],
     hidden : SeqsUpTo([name : HiddenNames, value : HiddenValues], MaxHidden)]

\* fetch_detalle_proceso_via_postback(numero_proceso, session) is called
FetchDetalleCall ==
    /\ call = "fetch_detalle_proceso_via_postback" /\ ~result.done
    /\ result' = [done |-> TRUE, val |-> fetch_detalle_proceso_via_postback(arg)]
    /\ UNCHANGED <<call, arg, upload>>

-----------------------------------------------------------------------------
(* The line-based extractors of a detail page *)

\* `text.startswith(pre)`
StartsWith(q, pre) == Len(q) >= Len(pre) /\ SubSeq(q, 1, Len(pre)) = pre

\* `sep.join(parts)`
RECURSIVE Join(_, _)
Join(sep, parts) ==
    IF parts = <<>> THEN <<>>
    ELSE IF Len(parts) = 1 THEN parts[1]
    ELSE parts[1] \o sep \o Join(sep, Tail(parts))

\* the header phrases of _extract_renglones_from_text ("detalle de productos o
\* servicios", "renglones de la convocatoria", ...) written with two letters each
RenglonHeaders == << <<"d", "s">>, <<"d", "a">> >>

\* the test made on each line while looking for the header
IsRenglonHeader(line) ==
    \E k \in DOMAIN RenglonHeaders : IsSubstring(RenglonHeaders[k], Lower(line))

\* index of the first header line, 0 for header_idx = None
RECURSIVE FindHeader(_, _)
FindHeader(lines, i) ==
    IF i > Len(lines) THEN 0
    ELSE IF IsRenglonHeader(lines[i]) THEN i
    ELSE FindHeader(lines, i + 1)

SectionMark == <<"#", "#", "#", "#", " ">>
\* the close icon, U+00D7
CloseGlyph == <<"*">>

\* an end-of-block test that knows the section marker only
EndsBlockSectionOnly(text) == StartsWith(text, SectionMark)

\* the two `break` tests of the detail loop
EndsBlock(text) == StartsWith(text, SectionMark) \/ text = CloseGlyph

\* `for line in lines[header_idx + 1:]`
RECURSIVE DetalleLoop(_, _)
DetalleLoop(lines, detalle_lines) ==
    IF lines = <<>> THEN detalle_lines
    ELSE LET text == Strip(Head(lines))
         IN  IF text = <<>> THEN DetalleLoop(Tail(lines), detalle_lines)
             ELSE IF EndsBlock(text) THEN detalle_lines
             ELSE DetalleLoop(Tail(lines), Append(detalle_lines, text))

_extract_renglones_from_text(lines) ==
    LET header_idx == FindHeader(lines, 1)
    IN  IF header_idx = 0 THEN PyNone
        ELSE LET detalle_lines ==
                     DetalleLoop(SubSeq(lines, header_idx + 1, Len(lines)), <<>>)
             IN  IF detalle_lines = <<>> THEN PyNone
                 ELSE PyStr(Join(<<" ", "|", " ">>, detalle_lines))

\* the lines the text of a page is made of
LinePool ==
    { <<>>, <<" ">>, <<"s">>, <<" ", "a", " ">>,
      <<"d", "s">>, <<"A", " ", "D", "A", ":">>,
      <<"#", "#", "#", "#", " ", "s">>, <<"#", "#", "#", "#", "s">>,
      <<" ", "#", "#", "#", "#", " ", "a">>, <<"*">>, <<" ", "*">> }

\* _extract_renglones_from_text(lines) is called
RenglonesCall ==
    /\ call = "_extract_renglones_from_text" /\ ~result.done
    /\ result' = [done |-> TRUE, val |-> _extract_renglones_from_text(arg)]
    /\ UNCHANGED <<call, arg, upload>>

-----------------------------------------------------------------------------
(* _find_after_label *)

\* re.compile(rf"^{re.escape(label)}$", re.I).match(line)
LabelMatches(line, label) == Lower(line) = Lower(label)

\* `for j in range(idx + 1, min(idx + 1 + max_lookahead, len(lines)))`, j and
\* last counted from 1: the candidate returned, or nothing after a `break` or
\* at the end of the range
RECURSIVE Lookahead(_, _, _)
Lookahead(lines, j, last) ==
    IF j > last THEN PyNone
    ELSE LET candidate == Strip(lines[j])
         IN  IF candidate = <<>> THEN Lookahead(lines, j + 1, last)
             ELSE IF StartsWith(candidate, <<"#", "#", "#", "#">>) THEN PyNone
             ELSE PyStr(candidate)

\* `for idx, line in enumerate(lines)`: a matching line whose lookahead gives
\* nothing does not end the loop
RECURSIVE LabelLoop(_, _, _, _)
LabelLoop(lines, label, max_lookahead, i) ==
    IF i > Len(lines) THEN PyNone
    ELSE IF LabelMatches(lines[i], label)
    THEN LET found == Lookahead(lines, i + 1, Min(i + max_lookahead, Len(lines)))
         IN  IF found # PyNone THEN found
             ELSE LabelLoop(lines, label, max_lookahead, i + 1)
    ELSE LabelLoop(lines, label, max_lookahead, i + 1)

_find_after_label(lines, label, max_lookahead) ==
    LabelLoop(lines, label, max_lookahead, 1)

\* the lines of a page around a label "s"
LabelLinePool ==
    { <<>>, <<" ">>, <<"s">>, <<"S">>, <<" ", "a", " ">>, <<"d">>,
      <<"#", "#", "#", "#", "a">> }

\* the default of max_lookahead
DefaultLookahead == 6

\* _find_after_label(lines, label, max_lookahead) is called
FindAfterLabelCall ==
    /\ call = "_find_after_label" /\ ~result.done
    /\ result' = [done |-> TRUE,
                  val |-> _find_after_label(arg.lines, arg.label, arg.max_lookahead)]
    /\ UNCHANGED <<call, arg, upload>>

-----------------------------------------------------------------------------
(* extract_convocatoria_fields: the product detail of a detail page *)

\* the header keywords of the table scan ("objeto del gasto", "detalle del
\* producto", ...) written with two letters
TableKeywords == << <<"d", "d">> >>

\* re.sub(r"\s+", " ", text): every maximal run of whitespace becomes one blank
RECURSIVE CollapseBlanks(_)
CollapseBlanks(q) ==
    IF q = <<>> THEN <<>>
    ELSE IF Head(q) \in Whitespace
         THEN <<" ">> \o CollapseBlanks(LStrip(q))
         ELSE <<Head(q)>> \o CollapseBlanks(Tail(q))

_clean_text(c) == Strip(CollapseBlanks(c))

\* the header test of the table scan: a keyword in the lower-cased header cells
\* joined with blanks
IsProductTable(table) ==
    LET header_str == Join(<<" ">>, [i \in DOMAIN table.headers |->
                                        Lower(_clean_text(table.headers[i]))])
    IN  \E k \in DOMAIN TableKeywords : IsSubstring(TableKeywords[k], header_str)

\* one row of a candidate table: its non-empty cells joined with " | "
RowPart(row) ==
    Join(<<" ", "|", " ">>,
         SelectSeq([i \in DOMAIN row |-> _clean_text(row[i])], LAMBDA c : c # <<>>))

\* the rows after the header row of the candidate tables, rows without a
\* non-empty cell left out
RECURSIVE DescParts(_)
DescParts(tables) ==
    IF tables = <<>> THEN <<>>
    ELSE LET table == Head(tables)
             parts == SelectSeq([i \in DOMAIN table.rows |-> RowPart(table.rows[i])],
                                LAMBDA p : p # <<>>)
         IN  (IF IsProductTable(table) THEN parts ELSE <<>>) \o DescParts(Tail(tables))

\* step 2 of _extract_renglones_block: the table scan
TableScan(tables) ==
    LET desc_parts == DescParts(tables)
    IN  IF desc_parts = <<>> THEN PyNone ELSE PyStr(Join(<<";", " ">>, desc_parts))

\* get_renglones_from_pliego: None without a URL, on a failed download and for
\* a PDF; else the line-based extractor on the pliego's text
get_renglones_from_pliego(pliego) ==
    IF pliego.kind \in {"no_url", "error", "pdf"} THEN PyNone
    ELSE _extract_renglones_from_text(pliego.lines)

\* detalle_productos as extract_convocatoria_fields computes it: the page's
\* text, then the pliego; _extract_renglones_block has no caller
DetalleProductos(soup) ==
    LET detalle_productos == _extract_renglones_from_text(soup.lines)
    IN  IF ~PyTruthy(detalle_productos) /\ soup.pliego.kind # "no_url"
        THEN LET detalle_desde_pliego == get_renglones_from_pliego(soup.pliego)
             IN  IF PyTruthy(detalle_desde_pliego) THEN detalle_desde_pliego
                 ELSE detalle_productos
        ELSE detalle_productos

\* the text of a page as _extract_lines gives it: stripped, non-empty lines
PageLinePool == { <<"d", "s">>, <<"s">> }
PageTexts == SeqsUpTo(PageLinePool, MaxLines)

TablePool ==
    { [headers |-> << <<"D", "d">>, <<"s">> >>,
       rows |-> << << <<"s">>, <<>>, <<" ", "a">> >>, << <<"d">> >> >>],
      [headers |-> << <<"d", "d">> >>, rows |-> <<>>],
      [headers |-> << <<"s">> >>, rows |-> << << <<"a">> >> >>] }

DetailSoups ==
    [lines : PageTexts,
     pliego : [kind : {"no_url", "error", "pdf"}, lines : {<<>>}]
                 \cup [kind : {"html"}, lines : PageTexts],
     tables : SeqsUpTo(TablePool, MaxTables)]

\* extract_convocatoria_fields(html, url) is called
ExtractFieldsCall ==
    /\ call = "extract_convocatoria_fields" /\ ~result.done
    /\ result' = [done |-> TRUE, val |-> DetalleProductos(arg)]
    /\ UNCHANGED <<call, arg, upload>>

-----------------------------------------------------------------------------
(* scrapear_detalle_proceso: one detail visit of the browser *)

\* the browser: its session history and the entry it shows
PageShown(driver) == driver.history[driver.pos]

\* a navigation: the entries after the current one are dropped, the new page
\* is appended and shown
Navigate(driver, entry) ==
    [history |-> Append(SubSeq(driver.history, 1, driver.pos), entry),
     pos |-> driver.pos + 1]

\* driver.back(): one entry back in the history, if there is one
Back(driver) == [driver EXCEPT !.pos = Max(1, driver.pos - 1)]

HomePage == [url |-> "home", view |-> "home"]
ListingPage == [url |-> "listing", view |-> "listing"]

\* what the JS click on the row's link does
ClickOutcomes == {"raises", "opens_detail", "same_url", "nothing"}

\* the browser after the click
Clicked(driver, click) ==
    CASE click = "opens_detail" -> Navigate(driver, [url |-> "detail", view |-> "detail"])
      [] click = "same_url" ->
            Navigate(driver, [url |-> PageShown(driver).url, view |-> "detail"])
      [] OTHER -> driver

\* scrapear_detalle_proceso: None when the link is not clickable in time or
\* the click raises; else the page shown is parsed, whether or not the URL
\* changed, then driver.back() and the waits for the listing, whose timeouts
\* are passed over
scrapear_detalle_proceso(driver, link, click) ==
    IF ~link THEN [data |-> "None", driver |-> driver]
    ELSE IF click = "raises" THEN [data |-> "None", driver |-> driver]
    ELSE LET opened == Clicked(driver, click)
         IN  [data |-> PageShown(opened).view, driver |-> Back(opened)]

\* the browser on the listing: the home page, "Ver todos", and possibly a
\* listing page before the current one
Drivers ==
    { [history |-> <<HomePage, ListingPage>>, pos |-> 2],
      [history |-> <<HomePage, ListingPage, ListingPage>>, pos |-> 3] }

\* scrapear_detalle_proceso(driver, numero_proceso) is called
DetalleProcesoCall ==
    /\ call = "scrapear_detalle_proceso" /\ ~result.done
    /\ \E link \in BOOLEAN, click \in ClickOutcomes :
          result' = [done |-> TRUE, link |-> link, click |-> click,
                     val |-> scrapear_detalle_proceso(arg, link, click)]
    /\ UNCHANGED <<call, arg, upload>>

-----------------------------------------------------------------------------
(* ejecutar_robot's record and df_a_registros_bigquery *)

\* `x or ""`
OrEmpty(x) == IF PyTruthy(x) THEN x.v ELSE <<>>

\* texto_tic: the non-empty ones of nombre_proceso and detalle_productos,
\* joined with a blank
TextoTic(nombre_proceso, detalle_productos) ==
    Join(<<" ">>, SelectSeq(<<OrEmpty(nombre_proceso), OrEmpty(detalle_productos)>>,
                            LAMBDA t : t # <<>>))

\* the record ejecutar_robot appends: registro["es_tic"] = es_tic(texto_tic)
RobotRegistro(numero_proceso, nombre_proceso, detalle_productos, fecha_apertura) ==
    [numero_proceso |-> numero_proceso,
     nombre_proceso |-> nombre_proceso,
     detalle_productos |-> detalle_productos,
     fecha_apertura |-> fecha_apertura,
     es_tic |-> es_tic(PyStr(TextoTic(nombre_proceso, detalle_productos)))]

\* df_a_registros_bigquery, for one row of the DataFrame
df_a_registros_bigquery(row) ==
    [doc_id |-> IF PyTruthy(row.numero_proceso)
                THEN PyStr(sanitizar_doc_id_compras(row.numero_proceso))
                ELSE PyNone,
     numero_proceso |-> row.numero_proceso,
     nombre_proceso |-> row.nombre_proceso,
     fecha_apertura |-> row.fecha_apertura,
     detalle_productos_servicios |-> row.detalle_productos,
     origen |-> "COMPRAR",
     es_tic |-> TRUE,
     anio |-> obtener_anio_desde_fecha(row.fecha_apertura),
     fecha_carga |-> LoadTime]

\* the texts of a record's name and product detail
RobotTexts == {PyNone} \cup {PyStr(q) : q \in SeqsUpTo(Letters, MaxTextLen)}

\* one record goes from ejecutar_robot through df_a_registros_bigquery
RegistroBigqueryCall ==
    /\ call = "df_a_registros_bigquery" /\ ~result.done
    /\ LET registro == RobotRegistro(arg.numero_proceso, arg.nombre_proceso,
                                     arg.detalle_productos, arg.fecha_apertura)
       IN  result' = [done |-> TRUE, registro |-> registro,
                      val |-> df_a_registros_bigquery(registro)]
    /\ UNCHANGED <<call, arg, upload>>

-----------------------------------------------------------------------------
(* compras_to_bigquery.py: the robot's DataFrame goes to the warehouse *)

\* the records a run of ejecutar_robot may return
RobotPool ==
    {RobotRegistro(IdA, PyStr(<<"s", "s", "d">>), PyNone, Fecha2025),
     RobotRegistro(IdB, PyStr(<<"a">>), PyNone, PyNone),
     RobotRegistro(PyNone, PyNone, PyStr(<<"d">>), Fecha2025)}

\* main() of compras_to_bigquery.py up to the creation of the client:
\* df = ejecutar_robot(), which may raise; an empty DataFrame ends the program
\* without a load; registros = df_a_registros_bigquery(df)
ComprasMain ==
    /\ upload.pc = "u_read" /\ upload.sink = "compras_to_bigquery"
    /\ UNCHANGED <<call, arg, result>>
    /\ \/ LET df == upload.json
              registros == [i \in DOMAIN df |-> df_a_registros_bigquery(df[i])]
          IN  upload' = IF df = <<>> \/ registros = <<>>
                        THEN [upload EXCEPT !.pc = "u_done"]
                        ELSE [upload EXCEPT !.pc = "u_client",
                                            !.registros = registros]
       \/ /\ upload.faults > 0
          /\ upload' = [upload EXCEPT !.pc = "u_raised",
                                       !.faults = upload.faults - 1]

-----------------------------------------------------------------------------
(* Arguments *)

Texts(S) == SeqsUpTo(S, MaxTextLen)

\* the arguments each function is applied to
Args(f) ==
    CASE f = "es_tic" -> {PyNone} \cup {PyStr(q) : q \in Texts(Chars)}
      [] f = "sanitizar_doc_id" ->
            {PyNone, PyInt(7), PyInt(2025), PyStr(DocIdExample)}
               \cup {PyStr(q) : q \in Texts(IdChars)}
      [] f = "obtener_anio_desde_fecha" ->
            {PyNone, PyInt(2025)} \cup {PyStr(q) : q \in SeqsUpTo(DateChars, MaxDateLen)}
      [] f = "_iter_compras_pages" ->
            [site : Sites,
             max_pages : {NoInt} \cup {SomeInt(k) : k \in 0..(MaxSitePages + 1)}]
      [] f = "fetch_detalle_proceso_via_postback" -> ListingSoups
      [] f = "_extract_renglones_from_text" -> SeqsUpTo(LinePool, MaxLines)
      [] f = "_find_after_label" ->
            [lines : SeqsUpTo(LabelLinePool, MaxLines),
             label : {<<"s">>},
             max_lookahead : {1, 2, DefaultLookahead}]
      [] f = "extract_convocatoria_fields" -> DetailSoups
      [] f = "scrapear_detalle_proceso" -> Drivers
      [] f = "df_a_registros_bigquery" ->
            [numero_proceso : {PyNone, IdA},
             nombre_proceso : RobotTexts, detalle_productos : RobotTexts,
             fecha_apertura : {PyNone, Fecha2025}]

Calls == {"es_tic", "sanitizar_doc_id", "obtener_anio_desde_fecha",
          "_iter_compras_pages",
          "fetch_detalle_proceso_via_postback",
          "_extract_renglones_from_text",
          "_find_after_label",
          "extract_convocatoria_fields",
          "scrapear_detalle_proceso",
          "df_a_registros_bigquery"}

\* es_tic(texto) is called
EsTicCall ==
    /\ call = "es_tic" /\ ~result.done
    /\ result' = [done |-> TRUE, val |-> es_tic(arg)]
    /\ UNCHANGED <<call, arg, upload>>

-----------------------------------------------------------------------------
(* One worker run *)

Init ==
    /\ site_key \in WorkerKeys
    /\ range_ok \in (IF site_key = "boletin_tercera" THEN BOOLEAN ELSE {TRUE})
    /\ pages \in Layouts
    /\ budget = MaxFaults
    /\ cancelFlag = FALSE
    /\ pc = "ready"
    /\ outcome = "running" /\ ret = 0
    /\ FreshAdapter
    /\ emitted = <<>> /\ cancelled = FALSE /\ pending = <<>>
    /\ btn_start = FALSE /\ btn_cancel = FALSE /\ worker = "worker"
    /\ activeRuns = 0 /\ started = 1 /\ handled = 0
    /\ NoCall

\* the steps of the worker's thread
AdapterStep ==
    \/ (WorkerRun /\ UNCHANGED guiVars)
    \/ (WorkerRead /\ UNCHANGED guiVars)
    \/ (WorkerEmit /\ UNCHANGED guiVars)
    \/ (ComprarListing /\ UNCHANGED guiVars)
    \/ (ComprarRow /\ UNCHANGED guiVars)
    \/ (ComprarDetail /\ UNCHANGED guiVars)
    \/ (ComprarExport /\ UNCHANGED guiVars)
    \/ (BoletinDay /\ UNCHANGED guiVars)
    \/ (BoletinListado /\ UNCHANGED guiVars)
    \/ (BoletinAviso /\ UNCHANGED guiVars)
    \/ (BoletinParse /\ UNCHANGED guiVars)
    \/ (BoletinSleep /\ UNCHANGED guiVars)
    \/ (BoletinDayEnd /\ UNCHANGED guiVars)
    \/ (BoletinExport /\ UNCHANGED guiVars)
    \/ (RobotOpen /\ UNCHANGED guiVars)
    \/ (RobotPage /\ UNCHANGED guiVars)
    \/ (RobotRow /\ UNCHANGED guiVars)
    \/ (RobotDetalle /\ UNCHANGED guiVars)
    \/ (RobotPageEnd /\ UNCHANGED guiVars)
    \/ (RobotWrap /\ UNCHANGED guiVars)

Next ==
    \/ (RequestCancel /\ UNCHANGED guiVars /\ UNCHANGED utilVars)
    \/ (AdapterStep /\ UNCHANGED utilVars)

Spec == Init /\ [][Next]_vars

\* One worker run under a fair scheduler: the worker's thread is scheduled as
\* long as it can take a step, and every network wait of the adapters has a
\* timeout.  The listings are the generic ones (every layout within the bounds).
InitFair == Init /\ pages # ScenarioPages

SpecFair == InitFair /\ [][Next]_vars /\ WF_vars(AdapterStep /\ UNCHANGED utilVars)

-----------------------------------------------------------------------------
(* One window: Start and Cancel clicks, worker threads, queued signals *)

InitShell ==
    /\ site_key = "boletin_tercera" /\ range_ok = TRUE /\ pages = <<0>>
    /\ budget = 0
    /\ cancelFlag = FALSE
    /\ pc = "none"
    /\ outcome = "running" /\ ret = 0
    /\ FreshAdapter
    /\ emitted = <<>> /\ cancelled = FALSE /\ pending = <<>>
    /\ btn_start = TRUE /\ btn_cancel = FALSE /\ worker = "none"
    /\ activeRuns = 0 /\ started = 0 /\ handled = 0
    /\ NoCall

NextShell ==
    \/ (OnStartClicked /\ UNCHANGED utilVars)
    \/ (OnCancelClicked /\ UNCHANGED utilVars)
    \/ (OnFinished /\ UNCHANGED utilVars)
    \/ (OnError /\ UNCHANGED utilVars)
    \/ (AdapterStep /\ UNCHANGED utilVars)

SpecShell == InitShell /\ [][NextShell]_vars

-----------------------------------------------------------------------------
(* One application of a text function to one argument *)

IdleScraper ==
    /\ site_key = "boletin_tercera" /\ range_ok = TRUE /\ pages = <<0>>
    /\ budget = 0
    /\ cancelFlag = FALSE
    /\ pc = "none"
    /\ outcome = "running" /\ ret = 0
    /\ FreshAdapter
    /\ emitted = <<>> /\ cancelled = FALSE /\ pending = <<>>
    /\ btn_start = TRUE /\ btn_cancel = FALSE /\ worker = "none"
    /\ activeRuns = 0 /\ started = 0 /\ handled = 0

scraperVars == <<site_key, range_ok, pages, budget, cancelFlag, pc, outcome, ret,
                 emitted, cancelled, pending, activeRuns, adapterVars, guiVars>>

InitText ==
    /\ IdleScraper
    /\ call \in Calls
    /\ arg \in Args(call)
    /\ result = [done |-> FALSE]
    /\ upload = [pc |-> "none"]

NextText ==
    \/ (EsTicCall /\ UNCHANGED scraperVars)
    \/ (SanitizarCall /\ UNCHANGED scraperVars)
    \/ (AnioCall /\ UNCHANGED scraperVars)
    \/ (IterPagesCall /\ UNCHANGED scraperVars)
    \/ (FetchDetalleCall /\ UNCHANGED scraperVars)
    \/ (RenglonesCall /\ UNCHANGED scraperVars)
    \/ (FindAfterLabelCall /\ UNCHANGED scraperVars)
    \/ (ExtractFieldsCall /\ UNCHANGED scraperVars)
    \/ (DetalleProcesoCall /\ UNCHANGED scraperVars)
    \/ (RegistroBigqueryCall /\ UNCHANGED scraperVars)

SpecText == InitText /\ [][NextText]_vars

-----------------------------------------------------------------------------
(* Runs of an upload utility on one JSON file *)

InitUpload ==
    /\ IdleScraper
    /\ call = "none" /\ arg = PyNone /\ result = [done |-> FALSE]
    /\ \/ \E sink \in Sinks, file \in {"missing", "not_a_list", "list"},
             registros \in SeqsUpTo(RecPool, MaxRecords),
             cred \in {"default", "missing", "ok"}, preloaded \in BOOLEAN :
             /\ file # "list" => registros = <<>>
             /\ upload = UploadStart(sink, file, registros, cred, preloaded)
       \/ \E df \in SeqsUpTo(RobotPool, MaxRecords),
             cred \in {"missing", "ok"}, preloaded \in BOOLEAN :
             upload = UploadStart("compras_to_bigquery", "robot", df, cred, preloaded)

NextUpload ==
    \/ (LeerJson /\ UNCHANGED scraperVars)
    \/ (CrearCliente /\ UNCHANGED scraperVars)
    \/ (FirestoreSet /\ UNCHANGED scraperVars)
    \/ (ComprasMain /\ UNCHANGED scraperVars)
    \/ (BigQueryLoad /\ UNCHANGED scraperVars)
    \/ (BigQueryResult /\ UNCHANGED scraperVars)
    \/ (BigQueryGetTable /\ UNCHANGED scraperVars)
    \/ (UploadAgain /\ UNCHANGED scraperVars)

SpecUpload == InitUpload /\ [][NextUpload]_vars

-----------------------------------------------------------------------------
(* Properties *)

Last(q) == q[Len(q)]

PortalKeys == {"comprar_tics", "comprar_tics_robot"}

\* the fields a listing row shares with the detail page
SharedFields == {"numero_proceso", "nombre_proceso", "tipo_proceso", "fecha_apertura",
                 "estado", "unidad_ejecutora", "saf"}
DetailFirstFields == {"numero_proceso", "nombre_proceso", "tipo_proceso",
                      "fecha_apertura"}
ListingFirstFields == {"estado", "unidad_ejecutora", "saf"}

\* the listing row and the detail the site gave for an attempted row
ListingOf(a) == ListingRow(a.c.lst, a.c.link)
DetailOf(a) == IF a.c.det = "ok" THEN DetailData(a.c.dtl) ELSE NoDetail

\* the attempted rows a record was built from
Sources(r) == {i \in DOMAIN attempted : attempted[i].row = r.row}

\* C1: in all three adapters every value passed to progress_callback is an
\* integer in [0,100] and the values passed are non-decreasing, for any listing,
\* any failing rows and cancellation at any point.
C1_ProgressBoundedMonotone ==
    /\ \A i \in 1..Len(progress) : progress[i] \in 0..100
    /\ \A i \in 1..(Len(progress) - 1) : progress[i] <= progress[i + 1]

\* a cancelled gazette run with a failed notice that reported rising values
C1_Witness ==
    /\ site_key = "boletin_tercera" /\ outcome = "returned" /\ cancelObs.seen
    /\ Len(attempted) > Len(records)
    /\ Len(progress) >= 2 /\ progress[1] < Last(progress)

\* C2: once is_cancelled() has returned true with k records appended, no
\* further record is appended, the adapter returns exactly k and writes exactly
\* those k records when k > 0, and the cancellation itself raises nothing (only
\* the spreadsheet write of k > 0 records can).
C2_CancelReturnsPartial ==
    cancelObs.seen =>
        /\ Len(records) = cancelObs.k
        /\ outcome = "returned" =>
              /\ ret = cancelObs.k
              /\ Len(written) = cancelObs.k
              /\ cancelObs.k > 0 => fileWritten /\ written = records
        /\ outcome = "raised" => cancelObs.k > 0

\* a run cancelled after two records and before the listing was exhausted
C2_Witness ==
    /\ cancelObs.seen /\ outcome = "returned"
    /\ ret >= 2 /\ Len(attempted) < listed

\* the scenario: the portal HTTP adapter, 12 + 3 rows, only row 7's detail throws
ScenarioRun ==
    /\ site_key = "comprar_tics" /\ pages = ScenarioPages
    /\ outcome = "returned" /\ ~cancelObs.seen
    /\ Len(attempted) >= 7
    /\ \A i \in DOMAIN attempted :
          attempted[i].c.det = (IF i = 7 THEN "throws" ELSE "ok")

\* C3: in that scenario the run yields 14 records merged with their detail,
\* row 7 is retained with listing-only fields (15 records in all), and the last
\* progress value reported is 100.
C3_Scenario ==
    ScenarioRun =>
        /\ Len(records) = 15 /\ ret = 15
        /\ Cardinality({i \in DOMAIN records : records[i].url_detalle = "D"}) = 14
        /\ records[7].row = 7
        /\ \A f \in SharedFields : records[7][f] = ListingOf(attempted[7])[f]
        /\ records[7].expediente = NoneV /\ records[7].detalle_productos = NoneV
        /\ records[7].url_detalle # "D"
        /\ Last(progress) = 100

C3_Witness == ScenarioRun /\ fileWritten

\* C4: a row whose detail fetch raises does not end the run: the adapter does
\* not raise on its account (every raise is paid for by a fault outside the row
\* loop), and an uncancelled run that returns has attempted every row of every
\* listing it fetched, the rows after a failed one included.
C4_RowErrorsDoNotAbort ==
    /\ (outcome = "raised" /\ Registered(site_key) /\ range_ok) =>
          MaxFaults - budget > Cardinality({i \in DOMAIN attempted :
                                               attempted[i].c # PlainCase})
    /\ (outcome = "returned" /\ ~cancelObs.seen) => Len(attempted) = listed

\* a two-day gazette run whose first notice failed and which went on to the end
C4_Witness ==
    /\ site_key = "boletin_tercera" /\ Len(pages) = 2
    /\ outcome = "returned" /\ ~cancelObs.seen
    /\ Len(attempted) >= 3 /\ attempted[1].c.det = "throws"
    /\ Last(attempted).row = SumSeq(pages)

\* C5: in both portal adapters a row whose detail is unavailable still gets a
\* record carrying the listing's values.
C5_UnavailableDetailKeepsRow ==
    site_key \in PortalKeys =>
        \A i \in DOMAIN attempted :
            attempted[i].c.det # "ok" =>
                \E j \in DOMAIN records :
                    /\ records[j].row = attempted[i].row
                    /\ \A f \in SharedFields :
                          records[j][f] = ListingOf(attempted[i])[f]

\* C6 as claimed: in every portal adapter each shared field holds the detail
\* value when it is non-empty and the listing value otherwise.
C6_DetailFirstEverywhere ==
    site_key \in PortalKeys =>
        \A j \in DOMAIN records : \A i \in Sources(records[j]) : \A f \in SharedFields :
            records[j][f] = IF Truthy(DetailOf(attempted[i])[f])
                            THEN DetailOf(attempted[i])[f]
                            ELSE ListingOf(attempted[i])[f]

\* C6 amended: the HTTP adapter takes all seven shared fields detail first; the
\* browser adapter takes process number, name, type and opening date detail
\* first, and status, executing unit and SAF listing first (the detail value
\* only when the listing has none).
C6_MergePriority ==
    site_key \in PortalKeys =>
        \A j \in DOMAIN records : \A i \in Sources(records[j]) : \A f \in SharedFields :
            LET d == DetailOf(attempted[i])[f]
                l == ListingOf(attempted[i])[f]
            IN  records[j][f] =
                    IF site_key = "comprar_tics_robot" /\ f \in ListingFirstFields
                    THEN (IF Truthy(l) THEN l ELSE d)
                    ELSE (IF Truthy(d) THEN d ELSE l)

\* a browser-adapter run with a record whose status came from the listing
\* although the detail had one, and a record whose unit came from the detail
C6_Witness ==
    /\ site_key = "comprar_tics_robot"
    /\ \E j \in DOMAIN records : \E i \in Sources(records[j]) :
          /\ DetailOf(attempted[i]).estado = "D" /\ records[j].estado = "L"
    /\ \E j \in DOMAIN records : \E i \in Sources(records[j]) :
          /\ ListingOf(attempted[i]).unidad_ejecutora = ""
          /\ records[j].unidad_ejecutora = "D"

\* C7: for every run that returns, the spreadsheet is written iff at least one
\* record was produced, the returned integer is the number of rows written, and
\* a run without records writes nothing and returns 0.
C7_FileIffRecords ==
    outcome = "returned" =>
        /\ fileWritten <=> records # <<>>
        /\ fileWritten => written = records
        /\ ret = Len(written)
        /\ records = <<>> => ret = 0 /\ written = <<>>

\* a browser-adapter run that skipped a row and exported the others
C7_Witness ==
    /\ site_key = "comprar_tics_robot" /\ outcome = "returned"
    /\ fileWritten /\ ret >= 1 /\ Len(attempted) > ret

\* C8: every listing or detail fetch is started right after a poll of
\* is_cancelled that returned false.
C8_PollBeforeEveryFetch == ~fetchObs.unpolled

\* C9: when a portal adapter has returned or raised, the session it created
\* has been closed.
C9_SessionClosedAtExit ==
    (site_key \in PortalKeys /\ outcome # "running") => session # "open"

\* C10: at most one adapter invocation runs for a window, and a run is started
\* only after the terminal signal of the previous run has been handled.
C10_OneRunAtATime ==
    /\ activeRuns <= 1
    /\ started - handled <= 1
    /\ btn_start => (activeRuns = 0 /\ pending = <<>> /\ started = handled)

\* a second run under way, cancelled, after the first was handled
C10_Witness ==
    /\ started = 2 /\ handled = 1 /\ activeRuns = 1 /\ cancelFlag

\* the terminal signals among the signals a worker emitted
Terminals(q) == {i \in DOMAIN q : q[i].sig \in {"finished", "error"}}

\* what holds of the signals of a run at each moment: none is terminal before
\* run() ends; at its end exactly one is, it is the last signal, and it is
\* finished(count, cancelled) iff the adapter returned, error iff the lookup or
\* the adapter raised
OneTerminalSignal ==
    /\ pc # "w_done" => Terminals(emitted) = {}
    /\ pc = "w_done" =>
          /\ Cardinality(Terminals(emitted)) = 1
          /\ Terminals(emitted) = {Len(emitted)}
          /\ outcome = "returned" =>
                /\ Last(emitted).sig = "finished"
                /\ Last(emitted).count = ret
                /\ cancelObs.seen => Last(emitted).cancelled
          /\ outcome # "returned" =>
                /\ outcome = "raised"
                /\ Last(emitted).sig = "error"

\* once the terminal signal is out, nothing more is emitted
NothingAfterTerminal ==
    Terminals(emitted) # {} => (progress' = progress /\ emitted' = emitted)

\* C11: every started worker run ends with exactly one terminal notification,
\* finished(count, cancelled) when the adapter returns (after a cancellation
\* too) and error when the lookup or the adapter raises; never both, never
\* neither, and no progress notification follows it.
C11_ExactlyOneTerminal ==
    /\ []OneTerminalSignal
    /\ [][NothingAfterTerminal]_vars
    /\ <>(pc = "w_done")

\* a cancelled run that ended with finished(count > 0, cancelled = TRUE) as its
\* only terminal signal, after progress had been reported
C11_Witness ==
    /\ pc = "w_done" /\ outcome = "returned" /\ cancelObs.seen
    /\ progress # <<>> /\ ret > 0
    /\ emitted = <<[sig |-> "finished", count |-> ret, cancelled |-> TRUE]>>

\* the letter a character stands for, without case or accent
PlainChar(c) ==
    CASE c \in {"s", "S", "s'", "S'"} -> "s"
      [] c \in {"d", "D", "d'", "D'"} -> "d"
      [] c \in {"a", "A", "a'", "A'"} -> "a"
      [] OTHER -> c

\* the text written in plain lower-case letters: what every text that differs
\* from it only in letter case or accents has in common with it
Plain(q) == [i \in DOMAIN q |-> PlainChar(q[i])]

\* C12: es_tic(text) is true iff some keyword whose accent-stripped lowercase
\* form is longer than 2 characters is a substring of the accent-stripped
\* lowercase text; texts differing only in case or accents get the same answer
\* (each gets the answer of its plain lower-case form); an empty or absent text
\* gives false.
C12_EsTicContract ==
    (call = "es_tic" /\ result.done) =>
        /\ result.val <=>
              /\ arg.t = "str"
              /\ \E k \in DOMAIN TIC_KEYWORDS :
                    /\ Len(Lower(_strip_accents(TIC_KEYWORDS[k]))) > 2
                    /\ IsSubstring(Lower(_strip_accents(TIC_KEYWORDS[k])),
                                   Lower(_strip_accents(arg.v)))
        /\ arg.t = "str" => (result.val <=> es_tic(PyStr(Plain(arg.v))))
        /\ (arg.t = "none" \/ arg.v = <<>>) => ~result.val

\* a text in upper case and with an accent that was recognised
C12_Witness ==
    /\ call = "es_tic" /\ result.done /\ result.val
    /\ arg.v = <<"S", "s'", "D">>

\* the characters a sanitized identifier must not contain
Forbidden == {"/", "\\"} \cup Whitespace

Clean(q) == \A i \in DOMAIN q : q[i] \notin Forbidden

\* C13: the output of sanitizar_doc_id holds no "/", no "\" and no whitespace,
\* and sanitizing it again changes nothing; the example identifier gives
\* "14-1-0026_LPR25"; the three copies of the function behave alike.
C13_SanitizeCleanIdempotent ==
    (call = "sanitizar_doc_id" /\ result.done) =>
        /\ Clean(result.val) /\ Clean(result.bq) /\ Clean(result.compras)
        /\ result.twice = result.val
        /\ result.bq_twice = result.bq
        /\ result.compras_twice = result.compras
        /\ result.bq = result.val /\ result.compras = result.val
        /\ arg = PyStr(DocIdExample) => result.val = DocIdExampleSanitized

\* an identifier with a slash, a backslash and a run of whitespace inside
C13_Witness ==
    /\ call = "sanitizar_doc_id" /\ result.done
    /\ arg.t = "str" /\ ~Clean(arg.v)
    /\ \E i \in DOMAIN arg.v : arg.v[i] = "/"
    /\ \E i \in DOMAIN arg.v : arg.v[i] \in Whitespace
    /\ result.val # <<>> /\ result.val # arg.v

\* the text holds four digits in a row somewhere
HasFourDigits(q) ==
    \E i \in DOMAIN q : i + 3 <= Len(q) /\ \A j \in i..(i + 3) : IsDigit(q[j])

\* C14: for an opening date that is not a string, or a string without four
\* digits in a row, obtener_anio_desde_fecha returns None and the record
\* prepared for the document store has no anio key; for every other string the
\* year is the integer value of the first four digits in a row (and the record
\* carries it).  Nothing is raised in either case.
C14_YearAbsentOrFirstFourDigits ==
    (call = "obtener_anio_desde_fecha" /\ result.done) =>
        IF arg.t # "str" \/ ~HasFourDigits(arg.v)
        THEN /\ result.val = PyNone
             /\ "anio" \notin DOMAIN result.data
        ELSE \E i \in DOMAIN arg.v :
                /\ i + 3 <= Len(arg.v)
                /\ \A j \in i..(i + 3) : IsDigit(arg.v[j])
                /\ \A k \in 1..(i - 1) :
                      ~(k + 3 <= Len(arg.v) /\ \A j \in k..(k + 3) : IsDigit(arg.v[j]))
                /\ result.val = PyInt(1000 * DigitVal(arg.v[i])
                                         + 100 * DigitVal(arg.v[i + 1])
                                         + 10 * DigitVal(arg.v[i + 2])
                                         + DigitVal(arg.v[i + 3]))
                /\ result.data["anio"] = result.val

\* a malformed date, digits but never four in a row, that got no year
C14_Witness ==
    /\ call = "obtener_anio_desde_fecha" /\ result.done
    /\ arg = PyStr(<<"1", "2", "/", "1", "2">>)
    /\ result.val = PyNone
    /\ DOMAIN result.data = {"numero_proceso", "fecha_apertura", "fecha_carga"}

\* the writes of the upload under way
RoundWrites == SelectSeq(upload.writes, LAMBDA w : w.round = upload.round)

\* the document key a record is to be written under
KeyOf(rec, i) ==
    IF "numero_proceso" \in DOMAIN rec /\ rec["numero_proceso"].t # "none"
    THEN sanitizar_doc_id(rec["numero_proceso"])
    ELSE <<"d", "o", "c", "_">> \o StrOfInt(i)

KeysOf(registros) == {KeyOf(registros[i], i) : i \in DOMAIN registros}

\* C15: subir_registros_a_firestore writes one document per input record, in
\* list order, under the sanitized id (doc_<index> when the record has none),
\* with fecha_carga the server-timestamp sentinel; a later write to a key
\* replaces the earlier document, so a second upload of the list leaves the set
\* of document keys the first upload left.
C15_OneWritePerRecord ==
    (upload.pc # "none" /\ upload.sink = "firestore") =>
        /\ Len(RoundWrites) = upload.idx
        /\ \A i \in DOMAIN RoundWrites :
              /\ RoundWrites[i].key = KeyOf(upload.registros[i], i)
              /\ RoundWrites[i].data["fecha_carga"] = SERVER_TIMESTAMP
              /\ \A f \in DOMAIN upload.registros[i] :
                    RoundWrites[i].data[f] = upload.registros[i][f]
        /\ upload.pc = "u_done" => upload.idx = Len(upload.registros)
        /\ \A k \in DOMAIN upload.docs :
              LET at == {i \in DOMAIN upload.writes : upload.writes[i].key = k}
              IN  IF at = {} THEN upload.docs[k] = upload.docs0[k]
                  ELSE upload.docs[k] =
                          upload.writes[CHOOSE i \in at : \A j \in at : j <= i].data
        /\ (upload.pc = "u_done" /\ upload.round >= 2) =>
              DOMAIN upload.docs = upload.keys_once

\* a second upload of two records whose ids sanitize to the same key
C15_Witness ==
    /\ upload.pc = "u_done" /\ upload.sink = "firestore" /\ upload.round = 2
    /\ Len(upload.registros) = 2 /\ Len(upload.writes) = 4
    /\ upload.registros[1] # upload.registros[2]
    /\ Cardinality(KeysOf(upload.registros)) = 1

\* records stored in the destination
Stored == IF upload.sink = "firestore" THEN Cardinality(DOMAIN upload.docs)
          ELSE Len(upload.table)
Stored0 == IF upload.sink = "firestore" THEN Cardinality(DOMAIN upload.docs0)
           ELSE Len(upload.table0)

\* C16 as claimed: in both sinks every upload of the n records of the file adds
\* n stored records, so two uploads leave 2n more than before the first.
C16_BothSinksAppend ==
    (upload.pc = "u_done") =>
        Stored = Stored0 + upload.round * Len(upload.registros)

\* C16 amended: the warehouse load (of either program) appends, each upload of
\* the n records adds n rows; the document collection is keyed by the sanitized id, an upload leaves
\* the earlier documents plus one document per distinct key of the list, and a
\* repeated upload adds none.
C16_AppendOrUpsert ==
    (upload.pc = "u_done") =>
        IF upload.sink \in BigQueryWriters
        THEN /\ Len(upload.table) = Len(upload.table0)
                                      + upload.round * Len(upload.registros)
             /\ SubSeq(upload.table, 1, Len(upload.table0)) = upload.table0
        ELSE DOMAIN upload.docs = DOMAIN upload.docs0 \cup KeysOf(upload.registros)

\* the same two records uploaded twice to a warehouse table that already held
\* one of them
C16_Witness ==
    /\ upload.pc = "u_done" /\ upload.sink = "bigquery" /\ upload.round = 2
    /\ Len(upload.table0) = 1 /\ Len(upload.registros) = 2
    /\ Len(upload.table) = 5
    /\ upload.table[2] = upload.table[4]

\* the input the utilities refuse
BadInput == upload.file \in {"missing", "not_a_list"} \/ upload.cred = "missing"

\* C17: in both upload utilities a missing JSON file, a JSON value that is not
\* a list, or a missing credentials file raises before any write: the run never
\* reaches the writing step and the destination stays as it was.
C17_BadInputNoWrite ==
    (upload.pc # "none" /\ upload.sink \in Sinks /\ BadInput) =>
        /\ upload.pc \in {"u_read", "u_client", "u_raised"}
        /\ upload.docs = upload.docs0 /\ upload.table = upload.table0
        /\ upload.writes = <<>> /\ upload.loads = 0

\* a good file and a missing credentials file: raised with the store untouched
C17_Witness ==
    /\ upload.pc = "u_raised" /\ upload.file = "list" /\ upload.cred = "missing"
    /\ Len(upload.registros) = 2 /\ upload.sink = "firestore"
    /\ upload.docs = upload.docs0 /\ upload.docs0 # <<>>

\* what one report of progress must be, were every value the integer
\* percentage of the work done
PercentageStep ==
    Len(progress') = Len(progress) + 1 =>
        LET v == progress'[Len(progress')]
        IN  CASE pc = "c_detail" -> v = (100 * idx') \div total
              [] pc = "r_detalle" -> v = (100 * idx') \div filas
              [] pc = "b_sleep" ->
                    v = Clamp((100 * (day_index * n_av + idx')) \div (n_av * total_days))
              [] pc = "b_listado" -> v = Clamp((100 * day_index') \div total_days)
              [] OTHER -> v = 100

\* C18: every progress value is the integer percentage of work done: after the
\* k-th processed row of N known rows a portal adapter reports floor(100*k/N);
\* after notice i of n on day d of D days the gazette adapter reports
\* floor(100*(d + i/n)/D), clamped to [0,100].
C18_ProgressIsPercentage == [][PercentageStep]_vars

\* C19: a run of a registered adapter that was neither cancelled nor failed
\* completes only after every row of every listing page (every notice of every
\* day) has been processed; the browser adapter goes on to page 2, 3, ... until
\* there is no next page.
C19_CompletesAfterAllRows ==
    (Registered(site_key) /\ outcome = "returned" /\ ~cancelObs.seen) =>
        /\ Len(attempted) = SumSeq(pages)
        /\ \A r \in 1..SumSeq(pages) : \E i \in DOMAIN attempted : attempted[i].row = r

\* ceil(a / b) for b > 0
CeilDiv(a, b) == CHOOSE q \in 0..a : q * b >= a /\ (q = 0 \/ (q - 1) * b < a)

\* page 1 shows a postback pager and no simple links, and announces a total
PostbackMode(site) ==
    /\ site.simple_links = <<>> /\ site.pager_target
    /\ site.total_results.some /\ site.page_size >= 1

\* page 1 first, then strictly increasing page numbers
PagesInOrder(out) ==
    /\ Len(out) >= 1 /\ out[1] = 1
    /\ \A i \in 1..(Len(out) - 1) : out[i] < out[i + 1]

\* C20 (as stated): _iter_compras_pages returns page 1 first and the following
\* pages in increasing page order; in postback mode it returns exactly
\* min(ceil(total_results / page_size), max_pages) pages, ceil(total_results /
\* page_size) when no maximum is given; in either mode it returns no more than
\* max_pages pages when max_pages >= 1 is supplied.
C20_PagesExactlyMinCeilMax ==
    (call = "_iter_compras_pages" /\ result.done) =>
        LET out == result.val
            site == arg.site
            mx == arg.max_pages
            pages_announced == CeilDiv(site.total_results.n, site.page_size)
        IN  /\ PagesInOrder(out)
            /\ (PostbackMode(site) /\ ~mx.some) => Len(out) = pages_announced
            /\ (PostbackMode(site) /\ mx.some) =>
                  Len(out) = Min(pages_announced, mx.n)
            /\ (mx.some /\ mx.n >= 1) => Len(out) <= mx.n

\* C20 (amended): as above, but page 1 is returned whatever the maximum is
\* (the test is page > max_pages, first made for page 2): in postback mode the
\* number of pages returned is max(1, min(ceil(total_results / page_size),
\* max_pages)), and ceil(total_results / page_size) when no maximum is given.
C20_PagesInOrderUpToMax ==
    (call = "_iter_compras_pages" /\ result.done) =>
        LET out == result.val
            site == arg.site
            mx == arg.max_pages
            pages_announced == CeilDiv(site.total_results.n, site.page_size)
        IN  /\ PagesInOrder(out)
            /\ (PostbackMode(site) /\ ~mx.some) => Len(out) = pages_announced
            /\ (PostbackMode(site) /\ mx.some) =>
                  Len(out) = Max(1, Min(pages_announced, mx.n))
            /\ (mx.some /\ mx.n >= 1) => Len(out) <= mx.n

\* a postback listing of three pages read with a maximum of two
C20_Witness ==
    /\ call = "_iter_compras_pages" /\ result.done
    /\ PostbackMode(arg.site)
    /\ arg.site.total_results.n = 5 /\ arg.site.page_size = 2
    /\ arg.max_pages = SomeInt(2)
    /\ result.val = <<1, 2>>

\* C21: in the request fetch_detalle_proceso_via_postback submits, __EVENTTARGET
\* and __EVENTARGUMENT are the event target and argument parsed from the row's
\* link, whatever hidden fields the listing page holds.
C21_PostbackPairAsParsed ==
    (call = "fetch_detalle_proceso_via_postback" /\ result.done /\ result.val.posted) =>
        /\ result.val.data["__EVENTTARGET"] = arg.href.target
        /\ result.val.data["__EVENTARGUMENT"] = arg.href.argument

\* a line that holds one of the header phrases, in any case
HeaderLine(line) ==
    \E k \in DOMAIN RenglonHeaders, i \in 0..Len(line) :
        /\ i + Len(RenglonHeaders[k]) <= Len(line)
        /\ \A j \in 1..Len(RenglonHeaders[k]) :
              LowerChar(line[i + j]) = RenglonHeaders[k][j]

\* a line that starts with '#### ' or is the close icon, blanks around it aside
SentinelLine(line) ==
    LET text == Strip(line)
    IN  \/ (Len(text) >= 5 /\ \A j \in 1..4 : text[j] = "#") /\ text[5] = " "
        \/ text = <<"*">>

\* the indices of the block: after the first header line, before the first
\* sentinel that follows it, blank lines left out
BlockIndices(lines) ==
    LET h == CHOOSE i \in DOMAIN lines :
                 HeaderLine(lines[i]) /\ \A j \in 1..(i - 1) : ~HeaderLine(lines[j])
    IN  {i \in DOMAIN lines :
            /\ i > h
            /\ Strip(lines[i]) # <<>>
            /\ \A j \in (h + 1)..i : ~SentinelLine(lines[j])}

\* the lines of a set of indices, in order, each without the blanks around it
RECURSIVE LinesAt(_, _)
LinesAt(lines, I) ==
    IF I = {} THEN <<>>
    ELSE LET i == CHOOSE m \in I : \A k \in I : m <= k
         IN  <<Strip(lines[i])>> \o LinesAt(lines, I \ {i})

\* C24: _extract_renglones_from_text returns None when no line holds a header
\* phrase or no (non-blank) line follows the first header before a sentinel;
\* otherwise exactly the non-blank lines after the first header line and before
\* the first sentinel, in order, joined with " | ".
C24_BlockBetweenHeaderAndSentinel ==
    (call = "_extract_renglones_from_text" /\ result.done) =>
        IF (\A i \in DOMAIN arg : ~HeaderLine(arg[i])) \/ BlockIndices(arg) = {}
        THEN result.val = PyNone
        ELSE result.val = PyStr(Join(<<" ", "|", " ">>, LinesAt(arg, BlockIndices(arg))))

\* a header, two lines of detail, the close icon
C24_Witness ==
    /\ call = "_extract_renglones_from_text" /\ result.done
    /\ arg = << <<"d", "s">>, <<"s">>, <<" ", "a", " ">>, <<"*">> >>
    /\ result.val = PyStr(<<"s", " ", "|", " ", "a">>)

\* the lines that equal the label, case aside
LabelLines(lines, label) ==
    {i \in DOMAIN lines :
        /\ Len(lines[i]) = Len(label)
        /\ \A j \in DOMAIN label : LowerChar(lines[i][j]) = LowerChar(label[j])}

\* the non-blank lines among the at most n lines that follow line h
Following(lines, h, n) ==
    {j \in DOMAIN lines : j > h /\ j <= h + n /\ Strip(lines[j]) # <<>>}

\* C23: _find_after_label decides on the first line that equals the label: it
\* returns the first non-empty line among the at most max_lookahead lines after
\* that first match, None when no line equals the label; later occurrences of
\* the label never influence the result.
C23_FirstMatchDecides ==
    (call = "_find_after_label" /\ result.done) =>
        LET M == LabelLines(arg.lines, arg.label)
        IN  IF M = {} THEN result.val = PyNone
            ELSE LET h == CHOOSE i \in M : \A k \in M : i <= k
                     F == Following(arg.lines, h, arg.max_lookahead)
                 IN  IF F = {} THEN result.val = PyNone
                     ELSE result.val =
                            PyStr(Strip(arg.lines[CHOOSE j \in F : \A k \in F : j <= k]))

\* C22: when the line-based extractor finds no product detail (neither on the
\* page nor in its pliego) and the page has a table whose header row holds a
\* product-table keyword, extract_convocatoria_fields returns the table scan's
\* concatenated row cells as detalle_productos instead of an empty value.
C22_TableFallback ==
    (/\ call = "extract_convocatoria_fields" /\ result.done
     /\ _extract_renglones_from_text(arg.lines) = PyNone
     /\ get_renglones_from_pliego(arg.pliego) = PyNone
     /\ \E i \in DOMAIN arg.tables : IsProductTable(arg.tables[i])
     /\ TableScan(arg.tables) # PyNone) =>
        result.val = TableScan(arg.tables)

\* C25: after every call of scrapear_detalle_proceso that returns, the browser
\* is back on the listing page from which the row was clicked.
C25_BackOnListing ==
    (call = "scrapear_detalle_proceso" /\ result.done) =>
        /\ result.val.driver.pos = arg.pos
        /\ result.val.driver.history[result.val.driver.pos] = arg.history[arg.pos]

\* C26: within one run each listing row's detail fetch is attempted at most
\* once, in all three adapters: a failed fetch is not retried.
C26_DetailAttemptedOnce ==
    \A i, j \in DOMAIN attempted :
        attempted[i].row = attempted[j].row => i = j

\* a run that went on to a later row after a row whose detail was not obtained,
\* and returned
C26_Witness ==
    /\ outcome = "returned"
    /\ \E i \in DOMAIN attempted :
          attempted[i].c.det # "ok" /\ i < Len(attempted)

\* the days of the range, in ascending order
AllDays == [i \in 1..Len(pages) |-> i]

\* C27: for start_date <= end_date and no cancellation, scrape_boletin_tercera
\* requests the listing of each date of the range exactly once, in ascending
\* order, and terminates, also when a day's listing fetch fails or every notice
\* of a day fails; for end_date < start_date it raises before any fetch.
C27_EachDayOnceAscending ==
    /\ [](site_key = "boletin_tercera" =>
            /\ \A i \in DOMAIN requested : requested[i] = i
            /\ (range_ok /\ outcome # "running" /\ ~cancelObs.seen)
                  => (requested = AllDays)
            /\ (~range_ok)
                  => (/\ requested = <<>> /\ attempted = <<>> /\ listed = 0
                      /\ (pc \in {"w_emit", "w_done"} => outcome = "raised")))
    /\ ((site_key = "boletin_tercera") ~> (pc = "w_done"))

\* a run over two days that returned after the listing of a day with notices
\* could not be fetched
C27_Witness ==
    /\ site_key = "boletin_tercera" /\ pc = "w_done" /\ outcome = "returned"
    /\ ~cancelObs.seen
    /\ requested = <<1, 2>>
    /\ listed < SumSeq(pages)

\* C28: the finished notification carries cancelled = true only if the adapter
\* stopped early because it observed the cancel flag; a cancel request that
\* arrives after the adapter has processed its last row yields
\* finished(full count, cancelled = false).
C28_CancelledOnlyIfObserved ==
    \A i \in DOMAIN emitted :
        (emitted[i].sig = "finished" /\ emitted[i].cancelled) => cancelObs.seen

\* C29: for every record produced by ejecutar_robot and mapped by
\* df_a_registros_bigquery, the es_tic value of the warehouse row equals the
\* es_tic value the classification function computed for that record.
C29_RowKeepsClassification ==
    (call = "df_a_registros_bigquery" /\ result.done) =>
        result.val.es_tic = result.registro.es_tic

\* the records of the file all carry a process number, no two the same
DistinctNumbers(registros) ==
    /\ \A i \in DOMAIN registros :
          "numero_proceso" \in DOMAIN registros[i] /\ registros[i]["numero_proceso"].t = "str"
    /\ \A i, j \in DOMAIN registros :
          registros[i]["numero_proceso"] = registros[j]["numero_proceso"] => i = j

\* C30: two records with different process numbers are never written under the
\* same document key: within one upload of records with pairwise distinct
\* process numbers no write overwrites the document of another record.
C30_DistinctNumbersDistinctKeys ==
    (upload.pc # "none" /\ upload.sink = "firestore"
       /\ DistinctNumbers(upload.registros)) =>
        \A i, j \in DOMAIN RoundWrites :
            RoundWrites[i].key = RoundWrites[j].key => i = j

====
